---- MODULE Spec2Model ----
(***************************************************************************)
(* Ingest engine of the Ethereum log indexer over its BoltDB storage.      *)
(*                                                                         *)
(* The storage (internal/storage/storage.go) is translated from its code:  *)
(* every method is one bolt transaction, taken under the storage mutex.    *)
(* The engine that drives it (internal/indexer: planner, fetchers,         *)
(* committer, reorg handler, restart) is not among the sources; it is      *)
(* modelled from sections 4.3-4.6 of the specification, calling the        *)
(* storage methods that exist.                                             *)
(*                                                                         *)
(* Also translated from their code: the HTTP API (internal/api/server.go), *)
(* the startup validation of the configuration, and the two batch programs *)
(* (main.go, data.go).                                                     *)
(***************************************************************************)
EXTENDS Integers, Sequences, FiniteSets, TLC

(* ------------------------------ bounds --------------------------------- *)

\* Height of the chain head; blocks are StartBlock..MaxBlock.
MaxBlock == 4
\* How many times the live chain may reorganise in one behaviour.
MaxReorgs == 2
\* How many times the process may be killed and restarted in one behaviour.
MaxCrashes == 2
\* The batch program's block range spans up to MaxSpans full batches and one
\* block more.
MaxSpans == 1
\* Most logs one FilterLogs call of the batch program returns.
MaxBatchLogs == 1
\* Most logs the FilterLogs call of processAdaptiveBatch returns.
MaxProcessLogs == 2
\* data.go: most blocks of the range and most batches it is cut into.
MaxDataBlocks == 4
MaxDataBatches == 3
\* Most worker goroutines of the batch program.
MaxNumWorkers == 2
\* Most WebSocket clients connected at once.
MaxSubs == 2
\* Most records in the store the API is queried over.
MaxApiLogs == 3
\* Highest block number of a record in that store.
MaxApiBlock == 2

(* --------------------------- configuration ----------------------------- *)

\* Config.StartBlock
StartBlock == 1
\* Config.Workers
Workers == 2
\* Config.MaxBlockRange
MaxBlockRange == 2
\* Config.RollbackWindow
RollbackWindow == 3
\* main.go: MAX_BLOCK_RANGE
MAX_BLOCK_RANGE == 500
\* main.go: the errors channel holds NumWorkers*10 errors
ErrorsPerWorker == 10
\* Capacity of the live broadcast channel
LiveChCap == 1
\* server.go: limit := parseInt(q.Get("limit"), 100)
DefaultLimit == 100
\* server.go: stats.HeadLag > 128
LagThreshold == 128

VARIABLES
    chain,       \* live chain: block number -> variant of that block (0 or 1)
    reorgs,      \* reorganisations so far
    crashes,     \* kills so far
    logs,        \* bucket "logs": index -> LogEntry
    blockmap,    \* bucket "blockmap": block number -> block hash
    checkpoint,  \* bucket "checkpoint", key "current" (NoCheckpoint when absent)
    pc,          \* position of the ingest loop
    cursor,      \* in-memory cursor: lastProcessedBlock, nextIndex, lastBlockHash
    windows,     \* planned windows of the current span
    nextFetch,   \* next window id to hand to a fetcher
    fetching,    \* fetcher -> window id it is fetching (0: idle)
    buffer,      \* reorder buffer: window id -> fetched raw logs
    nextCommit,  \* window id the committer waits for
    pendLogs,    \* records of the window being committed, not yet stored
    pendAnchors, \* anchors of the window being committed, not yet stored
    pendCkpt,    \* checkpoint of the window being committed (NoCheckpoint: none)
    pendPre,     \* the window being committed and the storage it started from
    committed,   \* storage as of the last completed window commit or rollback
    firstRun,    \* the records as they were before the latest rollback
    last         \* the operation that produced this state

\* The batch program (main.go): its state is apart from the service's.
VARIABLES
    config,       \* IndexerConfig: StartBlock, EndBlock, NumWorkers
    mpc,          \* position of main()
    gen,          \* generateAdaptiveBatches: loop variable startBlock, currentIndex
    batches,      \* the planned []BatchInfo
    batchChan,    \* batchChan: ids of the batches not yet taken
    workers,      \* worker goroutine -> its position and the batch it holds
    workerDbs,    \* BatchID -> contents of the batch database (index -> entry)
    errors,       \* the errors channel
    errorCount,   \* errors main() has reported
    finalDb,      \* bucket "logs" of the final database
    merged,       \* batches consolidated so far
    fetched,      \* every log of the batches processed without error
    failed,       \* ids of the batches whose processAdaptiveBatch returned an error
    queries       \* the block spans FilterLogs was called with

\* The live side of the service: tailer, broadcast, API readers, shutdown.
VARIABLES
    mode,         \* how the tailer learns of new heads: "push" or "poll"
    heads,        \* push mode: numbers of the headers not yet consumed
    target,       \* the head the span being planned goes up to (0: backfill)
    spanCheck,    \* the reorg check made since the last commit span
    liveCh,       \* the broadcast channel
    dropped,      \* records dropped because the channel was full
    bcast,        \* the latest fan-out: the record and what became of it
    subs,         \* WebSocket handler -> the frames of type "log" it wrote
    cancelled,    \* the root scope's cancellation signal
    exited,       \* the tasks that have exited
    reads,        \* what a reader's last two reads returned, whether a
                  \* rollback ran between them (rolled) or since (pending)
    mu,           \* BoltStorage.mu: "free", or held by "rollback"
    rb            \* the Rollback call in progress

engineVars == <<chain, reorgs, crashes, logs, blockmap, checkpoint, pc, cursor,
                windows, nextFetch, fetching, buffer, nextCommit, pendLogs,
                pendAnchors, pendCkpt, pendPre, committed, firstRun, last>>

batchVars == <<config, mpc, gen, batches, batchChan, workers, workerDbs, errors,
               errorCount, finalDb, merged, fetched, failed, queries>>

liveVars == <<mode, heads, target, spanCheck, liveCh, dropped, bcast, subs,
              cancelled, exited, reads, mu, rb>>

vars == <<engineVars, batchVars, liveVars>>

storageVars == <<logs, blockmap, checkpoint>>
pipelineVars == <<windows, nextFetch, fetching, buffer, nextCommit>>
pendVars == <<pendLogs, pendAnchors, pendCkpt, pendPre>>
envVars == <<chain, reorgs, crashes>>

Blocks == StartBlock..MaxBlock
EmptyMap == [i \in {} |-> 0]
NoCheckpoint == [present |-> FALSE]
NoHash == 0

Max(S) == CHOOSE x \in S : \A y \in S : y <= x

RECURSIVE Pow2(_)
Pow2(n) == IF n = 0 THEN 1 ELSE 2 * Pow2(n - 1)

(* ------------------------------- chain --------------------------------- *)

\* A block's hash commits to the block and to all its ancestors.
RECURSIVE PrefixBits(_, _)
PrefixBits(ch, b) ==
    IF b < StartBlock THEN 0
    ELSE ch[b] * Pow2(b - StartBlock) + PrefixBits(ch, b - 1)

\* Header(n).hash of the live chain ch.
HeaderHash(ch, b) == b * Pow2(MaxBlock) + PrefixBits(ch, b) + 1

\* HeadNumber(): the highest block of the live chain.
HeadNumber(ch) == Max(DOMAIN ch)

\* Number of matching logs block b of chain ch emitted: a fixed content per
\* block and ancestry, between 0 and 2 logs.
NumLogs(ch, b) == (b + PrefixBits(ch, b) + 2) % 3

\* FilterLogs(from, to): raw logs in block-major, log-index-minor order.
RECURSIVE FilterLogs(_, _, _)
FilterLogs(ch, from, to) ==
    IF from > to THEN <<>>
    ELSE LET h == HeaderHash(ch, from)
         IN  [i \in 1..NumLogs(ch, from) |->
                 [blockNumber |-> from, blockHash |-> h, logIndex |-> i - 1]]
             \o FilterLogs(ch, from + 1, to)

(* ------------------------------ storage -------------------------------- *)

\* StoreLog putting the entry under the bucket's next free key.
StoreLogNextKey(l, entry) ==
    ((IF DOMAIN l = {} THEN 0 ELSE Max(DOMAIN l) + 1) :> entry) @@ l

\* StoreLog: b.Put(uint64ToBytes(entry.Index), val)
StoreLog(l, entry) == (entry.index :> entry) @@ l

\* StoreBlockHash keyed by the hash, as the bucket's comment has it.
StoreBlockHashByHash(m, blockNumber, blockHash) == (blockHash :> blockNumber) @@ m

\* StoreBlockHash: b.Put(uint64ToBytes(blockNumber), []byte(blockHash))
StoreBlockHash(m, blockNumber, blockHash) == (blockNumber :> blockHash) @@ m

\* SaveCheckpoint: b.Put([]byte("current"), val)
SaveCheckpoint(cp) ==
    [present |-> TRUE, lastProcessedBlock |-> cp.lastProcessedBlock,
     nextIndex |-> cp.nextIndex, lastBlockHash |-> cp.lastBlockHash]

\* GetLastIndex: the last key of the bucket plus one, 0 for an empty bucket.
GetLastIndex(l) == IF DOMAIN l = {} THEN 0 ELSE Max(DOMAIN l) + 1

\* GetTotalCount: stats.KeyN of the bucket.
GetTotalCount(l) == Cardinality(DOMAIN l)

\* The keys of bucket l from startIndex on, in ascending order.
RECURSIVE KeysFrom(_, _)
KeysFrom(l, startIndex) ==
    LET ks == {k \in DOMAIN l : k >= startIndex}
    IN  IF ks = {} THEN <<>>
        ELSE LET k == CHOOSE x \in ks : \A y \in ks : x <= y
             IN  <<k>> \o KeysFrom(l, k + 1)

\* The cursor loop of GetLogsByRange over the keys ks, results so far res.
RECURSIVE ScanRange(_, _, _, _, _)
ScanRange(l, ks, endIndex, limit, res) ==
    IF ks = <<>> THEN res
    ELSE IF endIndex > 0 /\ Head(ks) > endIndex THEN res
    ELSE LET res1 == Append(res, l[Head(ks)])
         IN  IF limit > 0 /\ Len(res1) >= limit THEN res1
             ELSE ScanRange(l, Tail(ks), endIndex, limit, res1)

\* GetLogsByRange seeking the key after startIndex.
GetLogsByRangeAfterStart(l, startIndex, endIndex, limit) ==
    ScanRange(l, KeysFrom(l, startIndex + 1), endIndex, limit, <<>>)

\* GetLogsByRange: c.Seek(startIndex), then every entry up to endIndex (when
\* endIndex > 0) and up to limit entries (when limit > 0).
GetLogsByRange(l, startIndex, endIndex, limit) ==
    ScanRange(l, KeysFrom(l, startIndex), endIndex, limit, <<>>)

\* GetLog reading the key after the index asked for.
GetLogNextKey(l, index) ==
    IF index + 1 \in DOMAIN l THEN [found |-> TRUE, entry |-> l[index + 1]]
    ELSE [found |-> FALSE]

\* GetLog: the entry under key index, or the error "not found".
GetLog(l, index) ==
    IF index \in DOMAIN l THEN [found |-> TRUE, entry |-> l[index]]
    ELSE [found |-> FALSE]

\* The entries of bucket l in key order, from c.First() on.
AllEntries(l) == LET ks == KeysFrom(l, 0) IN [i \in 1..Len(ks) |-> l[ks[i]]]

\* GetLogsByBlockNumber: scan of the whole bucket, le.BlockNumber == blockNumber.
GetLogsByBlockNumber(l, blockNumber) ==
    LET OfBlock(le) == le.blockNumber = blockNumber
    IN  SelectSeq(AllEntries(l), OfBlock)

\* GetLogsByTxHash: scan of the whole bucket, le.TxHash == txHash.
GetLogsByTxHash(l, txHash) ==
    LET OfTx(le) == le.txHash = txHash
    IN  SelectSeq(AllEntries(l), OfTx)

\* GetBlockHash looking the block up under a key StoreBlockHash never wrote.
GetBlockHashWrongKey(m, blockNumber) == NoHash

\* GetBlockHash: the stored hash, or the error "not found" (NoHash here).
GetBlockHash(m, blockNumber) ==
    IF blockNumber \in DOMAIN m THEN m[blockNumber] ELSE NoHash

\* Rollback deleting from toBlockNumber onwards (>= in place of >).
RollbackFromBlock(l, toBlockNumber) ==
    [i \in {j \in DOMAIN l : l[j].blockNumber < toBlockNumber} |-> l[i]]

\* Rollback: deletes every key whose entry has BlockNumber > toBlockNumber.
Rollback(l, toBlockNumber) ==
    [i \in {j \in DOMAIN l : l[j].blockNumber <= toBlockNumber} |-> l[i]]

\* GetCheckpoint reading a key SaveCheckpoint never wrote.
GetCheckpointWrongKey(cp) == NoCheckpoint

\* GetCheckpoint: the value under "current", or the error "no checkpoint
\* found" (NoCheckpoint here).
GetCheckpoint(cp) == IF cp.present THEN cp ELSE NoCheckpoint

Storage == [logs |-> logs, blockmap |-> blockmap, checkpoint |-> checkpoint]

(* ------------------------------- engine -------------------------------- *)

\* Batch planner: contiguous windows of at most maxRange blocks over [from, to].
RECURSIVE PlanWindows(_, _, _)
PlanWindows(from, to, maxRange) ==
    IF from > to THEN <<>>
    ELSE LET end == IF from + maxRange - 1 > to THEN to ELSE from + maxRange - 1
         IN  <<[from |-> from, to |-> end]>> \o PlanWindows(end + 1, to, maxRange)

\* The batch program is not running.
BatchOff ==
    /\ config = [StartBlock |-> 0, EndBlock |-> 0, NumWorkers |-> 0]
    /\ mpc = "off"
    /\ gen = [startBlock |-> 0, currentIndex |-> 0]
    /\ batches = <<>>
    /\ batchChan = <<>>
    /\ workers = [w \in {} |-> 0]
    /\ workerDbs = EmptyMap
    /\ errors = <<>>
    /\ errorCount = 0
    /\ finalDb = EmptyMap
    /\ merged = 0
    /\ fetched = {}
    /\ failed = {}
    /\ queries = {}

\* No tailer, no subscriber, no reader, no shutdown.
LiveOff ==
    /\ mode = "off"
    /\ heads = <<>>
    /\ target = 0
    /\ spanCheck = [checked |-> FALSE]
    /\ liveCh = <<>>
    /\ dropped = 0
    /\ bcast = [outcome |-> "none"]
    /\ subs = <<>>
    /\ cancelled = FALSE
    /\ exited = {}
    /\ reads = [n |-> 0]
    /\ mu = "free"
    /\ rb = [pc |-> "idle"]

Init ==
    /\ chain = [b \in Blocks |-> 0]
    /\ reorgs = 0
    /\ crashes = 0
    /\ logs = EmptyMap
    /\ blockmap = EmptyMap
    /\ checkpoint = NoCheckpoint
    /\ pc = "boot"
    /\ cursor = [lastProcessedBlock |-> StartBlock - 1, nextIndex |-> 0,
                 lastBlockHash |-> NoHash]
    /\ windows = <<>>
    /\ nextFetch = 1
    /\ fetching = [w \in 1..Workers |-> 0]
    /\ buffer = EmptyMap
    /\ nextCommit = 1
    /\ pendLogs = <<>>
    /\ pendAnchors = <<>>
    /\ pendCkpt = NoCheckpoint
    /\ pendPre = [window |-> 0]
    /\ committed = [logs |-> EmptyMap, blockmap |-> EmptyMap,
                    checkpoint |-> NoCheckpoint]
    /\ firstRun = [present |-> FALSE]
    /\ last = [op |-> "Init"]
    /\ BatchOff
    /\ LiveOff

\* Resumption: load the checkpoint; absent, start at the configured startBlock.
Boot ==
    /\ pc = "boot"
    /\ LET cp == GetCheckpoint(checkpoint)
       IN  IF cp.present
           THEN /\ cursor' = [lastProcessedBlock |-> cp.lastProcessedBlock,
                              nextIndex |-> cp.nextIndex,
                              lastBlockHash |-> cp.lastBlockHash]
                /\ pc' = "reorgcheck"
           ELSE /\ cursor' = [lastProcessedBlock |-> StartBlock - 1,
                              nextIndex |-> 0, lastBlockHash |-> NoHash]
                /\ pc' = "plan"
    /\ last' = [op |-> "Boot"]
    /\ UNCHANGED <<batchVars, liveVars, envVars, storageVars, pipelineVars, pendVars, committed, firstRun>>

\* Reorg detection, step 2: the blocks A < L inside the rollback window whose
\* live header hash equals the locally stored anchor.
Matching(ch, m, L) ==
    {A \in Blocks : /\ A < L
                    /\ A > L - RollbackWindow
                    /\ GetBlockHash(m, A) # NoHash
                    /\ GetBlockHash(m, A) = HeaderHash(ch, A)}

\* The common ancestor: the largest matching block.
CommonAncestor(ch, m, L) == Max(Matching(ch, m, L))

\* Reorg check against the cursor (section 4.6): no reorg, an unrecoverable
\* reorg, or Storage.Rollback(A) and the cursor rewound to A.
ReorgCheckStep ==
    /\ pc = "reorgcheck"
    /\ LET L == cursor.lastProcessedBlock
       IN  IF L < StartBlock \/ HeaderHash(chain, L) = cursor.lastBlockHash
           THEN /\ pc' = "plan"
                /\ last' = [op |-> "NoReorg"]
                /\ UNCHANGED <<logs, cursor, committed, firstRun>>
           ELSE IF Matching(chain, blockmap, L) = {}
           THEN /\ pc' = "fatal"
                /\ last' = [op |-> "Unrecoverable", from |-> L,
                            expected |-> cursor.lastBlockHash,
                            pre |-> Storage, live |-> chain]
                /\ UNCHANGED <<logs, cursor, committed, firstRun>>
           ELSE LET A == CommonAncestor(chain, blockmap, L)
                IN  /\ logs' = Rollback(logs, A)
                    /\ cursor' = [lastProcessedBlock |-> A,
                                  nextIndex |-> GetTotalCount(logs'),
                                  lastBlockHash |-> GetBlockHash(blockmap, A)]
                    /\ committed' = [logs |-> logs', blockmap |-> blockmap,
                                     checkpoint |-> checkpoint]
                    /\ firstRun' = [present |-> TRUE, logs |-> logs,
                                    toBlock |-> A, from |-> L]
                    /\ pc' = "plan"
                    /\ last' = [op |-> "Rollback", toBlock |-> A, from |-> L,
                                expected |-> cursor.lastBlockHash,
                                pre |-> Storage, live |-> chain]
    /\ UNCHANGED <<batchVars, envVars, blockmap, checkpoint, pipelineVars, pendVars>>

\* The reorg check of the ingest loop.
ReorgCheck == ReorgCheckStep /\ UNCHANGED liveVars

\* A span resuming at the block before the next one to process.
ResumeFromLast(lastProcessedBlock) == lastProcessedBlock

\* Where a span resumes: at lastProcessedBlock + 1.
ResumeFrom(lastProcessedBlock) == lastProcessedBlock + 1

\* Plan the span (lastProcessedBlock, upTo] as windows of at most maxRange blocks.
PlanTo(upTo) ==
    /\ pc = "plan"
    /\ IF cursor.lastProcessedBlock >= upTo
       THEN /\ pc' = "idle"
            /\ windows' = <<>>
       ELSE /\ pc' = "run"
            /\ windows' = PlanWindows(ResumeFrom(cursor.lastProcessedBlock),
                                      upTo, MaxBlockRange)
    /\ nextFetch' = 1
    /\ nextCommit' = 1
    /\ fetching' = [w \in 1..Workers |-> 0]
    /\ buffer' = EmptyMap
    /\ last' = [op |-> "Plan"]
    /\ UNCHANGED <<batchVars, envVars, storageVars, cursor, pendVars, committed, firstRun>>

\* Plan the span (lastProcessedBlock, head].
Plan == PlanTo(HeadNumber(chain)) /\ UNCHANGED liveVars

\* A tailer that goes straight to planning its next span.
BeforeSpanNoCheck == "plan"

\* What the tailer does before each new commit span: reorg detection.
BeforeSpan == "reorgcheck"

\* The tailer's tick: reorg detection runs before each new commit span.
Tick ==
    /\ pc = "idle"
    /\ pc' = BeforeSpan
    /\ last' = [op |-> "Tick"]
    /\ UNCHANGED <<batchVars, liveVars, envVars, storageVars, cursor, pipelineVars, pendVars, committed, firstRun>>

\* A free fetcher takes the next window of the ordered queue.
FetchTake(w) ==
    /\ pc = "run"
    /\ fetching[w] = 0
    /\ nextFetch <= Len(windows)
    /\ fetching' = [fetching EXCEPT ![w] = nextFetch]
    /\ nextFetch' = nextFetch + 1
    /\ last' = [op |-> "FetchTake"]
    /\ UNCHANGED <<batchVars, liveVars, envVars, storageVars, pc, cursor, windows, buffer, nextCommit,
                   pendVars, committed, firstRun>>

\* A reorder buffer that takes one window more.
BufferHasRoomForOneMore(buf) == Cardinality(DOMAIN buf) <= 2 * Workers

\* Workers block when the reorder buffer holds 2W pending windows.
BufferHasRoom(buf) == Cardinality(DOMAIN buf) < 2 * Workers

\* Its FilterLogs call answers; the FetchResult goes to the reorder buffer,
\* which holds at most 2W windows.
FetchDeliver(w) ==
    /\ pc = "run"
    /\ fetching[w] # 0
    /\ BufferHasRoom(buffer)
    /\ LET id == fetching[w]
       IN  buffer' = (id :> FilterLogs(chain, windows[id].from, windows[id].to))
                     @@ buffer
    /\ last' = [op |-> "FetchDeliver", window |-> fetching[w]]
    /\ fetching' = [fetching EXCEPT ![w] = 0]
    /\ UNCHANGED <<batchVars, liveVars, envVars, storageVars, pc, cursor, windows, nextFetch, nextCommit,
                   pendVars, committed, firstRun>>

\* LogRecords of a fetch result, index = nextIndex++ in provider order.
BuildRecords(raw, nextIndex) ==
    [i \in 1..Len(raw) |->
        [index |-> nextIndex + i - 1, blockNumber |-> raw[i].blockNumber,
         blockHash |-> raw[i].blockHash, logIndex |-> raw[i].logIndex]]

\* Anchors of a fetch result: one per block that emitted a log, and one for
\* the window's last block even if it emitted none.
RECURSIVE BuildAnchors(_, _, _, _)
BuildAnchors(raw, b, to, ch) ==
    IF b > to THEN <<>>
    ELSE LET of == {i \in 1..Len(raw) : raw[i].blockNumber = b}
         IN  (IF of # {}
              THEN <<[blockNumber |-> b,
                      blockHash |-> raw[CHOOSE i \in of : TRUE].blockHash]>>
              ELSE IF b = to
              THEN <<[blockNumber |-> b, blockHash |-> HeaderHash(ch, b)]>>
              ELSE <<>>)
             \o BuildAnchors(raw, b + 1, to, ch)

Committing == pendCkpt.present

\* At least one write of the window being committed has taken effect and
\* its SaveCheckpoint has not.
MidCommit == Committing /\ Storage # pendPre.pre

\* A committer that takes whichever fetched window is at hand.
CommitterTakesAny(buf, next) == DOMAIN buf

\* The window the committer takes: the one with id nextCommit.
CommitterTakes(buf, next) == IF next \in DOMAIN buf THEN {next} ELSE {}

\* The committer takes the in-order result and builds its records, anchors
\* and checkpoint.
CommitBegin ==
    /\ pc = "run"
    /\ ~Committing
    /\ \E id \in CommitterTakes(buffer, nextCommit) :
          LET raw == buffer[id]
              win == windows[id]
              anchors == BuildAnchors(raw, win.from, win.to, chain)
          IN  /\ pendLogs' = BuildRecords(raw, cursor.nextIndex)
              /\ pendAnchors' = anchors
              /\ pendCkpt' = SaveCheckpoint(
                    [lastProcessedBlock |-> win.to,
                     nextIndex |-> cursor.nextIndex + Len(raw),
                     lastBlockHash |-> anchors[Len(anchors)].blockHash])
              /\ buffer' = [k \in DOMAIN buffer \ {id} |-> buffer[k]]
              /\ pendPre' = [window |-> nextCommit, count |-> Len(raw),
                              nextIndex |-> cursor.nextIndex, pre |-> Storage,
                              lastProcessedBlock |-> cursor.lastProcessedBlock]
    /\ last' = [op |-> "CommitBegin"]
    /\ UNCHANGED <<batchVars, liveVars, envVars, storageVars, pc, cursor, windows, nextFetch, fetching,
                   nextCommit, committed, firstRun>>

\* One Storage.StoreLog transaction of the window's commit.
CommitLogStep ==
    /\ pc = "run"
    /\ Committing
    /\ pendLogs # <<>>
    /\ logs' = StoreLog(logs, Head(pendLogs))
    /\ pendLogs' = Tail(pendLogs)
    /\ last' = [op |-> "StoreLog"]
    /\ UNCHANGED <<batchVars, envVars, blockmap, checkpoint, pc, cursor, pipelineVars,
                   pendAnchors, pendCkpt, pendPre, committed, firstRun>>

\* The backfill path stores the record and nothing else.
CommitLog == CommitLogStep /\ UNCHANGED liveVars

\* One Storage.StoreBlockHash transaction of the window's commit.
CommitAnchor ==
    /\ pc = "run"
    /\ Committing
    /\ pendLogs = <<>>
    /\ pendAnchors # <<>>
    /\ blockmap' = StoreBlockHash(blockmap, Head(pendAnchors).blockNumber,
                                  Head(pendAnchors).blockHash)
    /\ pendAnchors' = Tail(pendAnchors)
    /\ last' = [op |-> "StoreBlockHash"]
    /\ UNCHANGED <<batchVars, liveVars, envVars, logs, checkpoint, pc, cursor, pipelineVars,
                   pendLogs, pendCkpt, pendPre, committed, firstRun>>

\* The Storage.SaveCheckpoint transaction that ends the window's commit.
CommitCheckpointStep ==
    /\ pc = "run"
    /\ Committing
    /\ pendLogs = <<>>
    /\ pendAnchors = <<>>
    /\ checkpoint' = pendCkpt
    /\ cursor' = [lastProcessedBlock |-> pendCkpt.lastProcessedBlock,
                  nextIndex |-> pendCkpt.nextIndex,
                  lastBlockHash |-> pendCkpt.lastBlockHash]
    /\ pendCkpt' = NoCheckpoint
    /\ nextCommit' = nextCommit + 1
    /\ pc' = IF nextCommit = Len(windows) THEN "idle" ELSE "run"
    /\ committed' = [logs |-> logs, blockmap |-> blockmap, checkpoint |-> checkpoint']
    /\ last' = [op |-> "SaveCheckpoint", window |-> nextCommit]
    /\ UNCHANGED <<batchVars, envVars, logs, blockmap, windows, nextFetch, fetching, buffer,
                   pendLogs, pendAnchors, pendPre, firstRun>>

\* The window's commit ends.
CommitCheckpoint == CommitCheckpointStep /\ UNCHANGED liveVars

\* The live chain replaces its suffix from block b on.
Reorg(b) ==
    /\ reorgs < MaxReorgs
    /\ chain' = [chain EXCEPT ![b] = 1 - @]
    /\ reorgs' = reorgs + 1
    /\ last' = [op |-> "Reorg"]
    /\ UNCHANGED <<batchVars, liveVars, crashes, storageVars, pc, cursor, pipelineVars, pendVars, committed, firstRun>>

\* The process is killed between two storage transactions and restarted:
\* the buckets stay, everything in memory is lost.
Crash ==
    /\ crashes < MaxCrashes
    /\ pc # "boot"
    /\ crashes' = crashes + 1
    /\ pc' = "boot"
    /\ cursor' = [lastProcessedBlock |-> StartBlock - 1, nextIndex |-> 0,
                  lastBlockHash |-> NoHash]
    /\ windows' = <<>>
    /\ nextFetch' = 1
    /\ fetching' = [w \in 1..Workers |-> 0]
    /\ buffer' = EmptyMap
    /\ nextCommit' = 1
    /\ pendLogs' = <<>>
    /\ pendAnchors' = <<>>
    /\ pendCkpt' = NoCheckpoint
    /\ pendPre' = [window |-> 0]
    /\ last' = [op |-> "Crash"]
    /\ UNCHANGED <<batchVars, liveVars, chain, reorgs, storageVars, committed, firstRun>>

Next ==
    \/ Boot
    \/ ReorgCheck
    \/ Plan
    \/ Tick
    \/ \E w \in 1..Workers : FetchTake(w)
    \/ \E w \in 1..Workers : FetchDeliver(w)
    \/ CommitBegin
    \/ CommitLog
    \/ CommitAnchor
    \/ CommitCheckpoint
    \/ \E b \in Blocks : Reorg(b)
    \/ Crash

Spec == Init /\ [][Next]_vars

(* --------------------- backfill over a long range ---------------------- *)

\* Head of a chain long enough for more windows than the reorder buffer and
\* the fetchers hold together.
PipelineHead == (2 * Workers + 2) * MaxBlockRange

\* A first start over an empty database, the head at PipelineHead.
PipelineInit ==
    /\ chain = [b \in StartBlock..PipelineHead |-> 0]
    /\ reorgs = 0
    /\ crashes = 0
    /\ logs = EmptyMap
    /\ blockmap = EmptyMap
    /\ checkpoint = NoCheckpoint
    /\ pc = "boot"
    /\ cursor = [lastProcessedBlock |-> StartBlock - 1, nextIndex |-> 0,
                 lastBlockHash |-> NoHash]
    /\ windows = <<>>
    /\ nextFetch = 1
    /\ fetching = [w \in 1..Workers |-> 0]
    /\ buffer = EmptyMap
    /\ nextCommit = 1
    /\ pendLogs = <<>>
    /\ pendAnchors = <<>>
    /\ pendCkpt = NoCheckpoint
    /\ pendPre = [window |-> 0]
    /\ committed = [logs |-> EmptyMap, blockmap |-> EmptyMap,
                    checkpoint |-> NoCheckpoint]
    /\ firstRun = [present |-> FALSE]
    /\ last = [op |-> "Init"]
    /\ BatchOff
    /\ LiveOff

\* The steps of the fetchers and the committer.
PipelineStep ==
    \/ \E w \in 1..Workers : FetchTake(w)
    \/ \E w \in 1..Workers : FetchDeliver(w)
    \/ CommitBegin
    \/ CommitLog
    \/ CommitAnchor
    \/ CommitCheckpoint

\* Backfill alone: the chain stands still and the process is not killed.
PipelineNext ==
    \/ Boot
    \/ Plan
    \/ \E w \in 1..Workers : FetchTake(w)
    \/ \E w \in 1..Workers : FetchDeliver(w)
    \/ CommitBegin
    \/ CommitLog
    \/ CommitAnchor
    \/ CommitCheckpoint

PipelineSpec == PipelineInit /\ [][PipelineNext]_vars

(* ------------------- live tailer, broadcast, shutdown ------------------ *)

\* The head of the chain when the service starts; it grows up to MaxBlock.
LiveStartHead == StartBlock + 1

\* No task has exited; mid notes whether the cancellation came in the middle
\* of a window's commit.
NoneExited == [fetchers |-> {}, tailer |-> FALSE, committer |-> FALSE,
               mid |-> FALSE]

\* A first start over an empty database; SubscribeNewHeads is available
\* (push mode) or not (poll mode); up to maxSubs WebSocket clients connected.
LiveStart(modes, maxSubs) ==
    /\ chain = [b \in StartBlock..LiveStartHead |-> 0]
    /\ reorgs = 0
    /\ crashes = 0
    /\ logs = EmptyMap
    /\ blockmap = EmptyMap
    /\ checkpoint = NoCheckpoint
    /\ pc = "boot"
    /\ cursor = [lastProcessedBlock |-> StartBlock - 1, nextIndex |-> 0,
                 lastBlockHash |-> NoHash]
    /\ windows = <<>>
    /\ nextFetch = 1
    /\ fetching = [w \in 1..Workers |-> 0]
    /\ buffer = EmptyMap
    /\ nextCommit = 1
    /\ pendLogs = <<>>
    /\ pendAnchors = <<>>
    /\ pendCkpt = NoCheckpoint
    /\ pendPre = [window |-> 0]
    /\ committed = [logs |-> EmptyMap, blockmap |-> EmptyMap,
                    checkpoint |-> NoCheckpoint]
    /\ firstRun = [present |-> FALSE]
    /\ last = [op |-> "Init"]
    /\ BatchOff
    /\ mode \in modes
    /\ heads = <<>>
    /\ target = 0
    /\ spanCheck = [checked |-> FALSE, resume |-> StartBlock - 1, spans |-> 0]
    /\ liveCh = <<>>
    /\ dropped = 0
    /\ bcast = [outcome |-> "none"]
    /\ \E n \in 0..maxSubs : subs = [s \in 1..n |-> [open |-> TRUE, frames |-> <<>>]]
    /\ cancelled = FALSE
    /\ exited = NoneExited
    /\ reads = [n |-> 0]
    /\ mu = "free"
    /\ rb = [pc |-> "idle"]

\* The chain grows by one block; in push mode the subscription announces it.
NewHead ==
    /\ HeadNumber(chain) < MaxBlock
    /\ chain' = (HeadNumber(chain) + 1 :> 0) @@ chain
    /\ heads' = IF mode = "push" THEN Append(heads, HeadNumber(chain) + 1) ELSE heads
    /\ last' = [op |-> "NewHead"]
    /\ UNCHANGED <<batchVars, reorgs, crashes, storageVars, pc, cursor, pipelineVars,
                   pendVars, committed, firstRun, mode, target, spanCheck, liveCh,
                   dropped, bcast, subs, cancelled, exited, reads, mu, rb>>

\* The live chain replaces its suffix from block b on; in push mode the
\* subscription announces the new head.
LiveReorg(b) ==
    /\ reorgs < MaxReorgs
    /\ chain' = [chain EXCEPT ![b] = 1 - @]
    /\ reorgs' = reorgs + 1
    /\ heads' = IF mode = "push" THEN Append(heads, HeadNumber(chain)) ELSE heads
    /\ last' = [op |-> "Reorg"]
    /\ UNCHANGED <<batchVars, crashes, storageVars, pc, cursor, pipelineVars,
                   pendVars, committed, firstRun, mode, target, spanCheck, liveCh,
                   dropped, bcast, subs, cancelled, exited, reads, mu, rb>>

\* Push mode: the tailer consumes the next header of the subscription.
PushTick ==
    /\ ~cancelled
    /\ mode = "push"
    /\ pc = "idle"
    /\ heads # <<>>
    /\ target' = Head(heads)
    /\ heads' = Tail(heads)
    /\ pc' = BeforeSpan
    /\ last' = [op |-> "Tick"]
    /\ UNCHANGED <<batchVars, envVars, storageVars, cursor, pipelineVars, pendVars,
                   committed, firstRun, mode, spanCheck, liveCh, dropped, bcast,
                   subs, cancelled, exited, reads, mu, rb>>

\* Poll mode: the tailer polls HeadNumber() every pollInterval.
PollTick ==
    /\ ~cancelled
    /\ mode = "poll"
    /\ pc = "idle"
    /\ target' = HeadNumber(chain)
    /\ pc' = BeforeSpan
    /\ last' = [op |-> "Tick"]
    /\ UNCHANGED <<batchVars, envVars, storageVars, cursor, pipelineVars, pendVars,
                   committed, firstRun, mode, heads, spanCheck, liveCh, dropped,
                   bcast, subs, cancelled, exited, reads, mu, rb>>

LiveBoot == ~cancelled /\ Boot

\* The reorg check; the tailer notes that it has run and where ingest resumes.
LiveReorgCheck ==
    /\ ~cancelled
    /\ ReorgCheckStep
    /\ spanCheck' = [checked |-> TRUE, resume |-> cursor'.lastProcessedBlock,
                     spans |-> spanCheck.spans]
    /\ UNCHANGED <<mode, heads, target, liveCh, dropped, bcast, subs, cancelled,
                   exited, reads, mu, rb>>

\* Backfill plans up to the head, the tailer up to the head it observed.
LivePlan ==
    /\ ~cancelled
    /\ PlanTo(IF target = 0 THEN HeadNumber(chain) ELSE target)
    /\ UNCHANGED liveVars

LiveFetchTake(w) == ~cancelled /\ FetchTake(w)

LiveFetchDeliver(w) == ~cancelled /\ FetchDeliver(w)

LiveCommitBegin == ~cancelled /\ CommitBegin

\* A committer whose send waits for room in the broadcast channel.
BroadcastReadyWhenRoom(ch) == Len(ch) < LiveChCap

\* The committer's send on the broadcast channel never waits.
BroadcastReady(ch) == TRUE

\* StoreLog on the live path: the stored record is also fanned out to the
\* broadcast channel, dropped and counted when the channel is full.
LiveCommitLog ==
    /\ CommitLogStep
    /\ IF target = 0
       THEN UNCHANGED <<liveCh, dropped, bcast>>
       ELSE /\ BroadcastReady(liveCh)
            /\ IF Len(liveCh) < LiveChCap
               THEN /\ liveCh' = Append(liveCh, Head(pendLogs).index)
                    /\ dropped' = dropped
                    /\ bcast' = [outcome |-> "sent", index |-> Head(pendLogs).index,
                                 before |-> liveCh, dropped |-> dropped]
               ELSE /\ liveCh' = liveCh
                    /\ dropped' = dropped + 1
                    /\ bcast' = [outcome |-> "dropped", index |-> Head(pendLogs).index,
                                 before |-> liveCh, dropped |-> dropped]
    /\ UNCHANGED <<mode, heads, target, spanCheck, subs, cancelled, exited, reads, mu, rb>>

\* The commit ends; with the span's last window the span is over.
LiveCommitCheckpoint ==
    /\ CommitCheckpointStep
    /\ spanCheck' = IF nextCommit = Len(windows)
                    THEN [checked |-> FALSE, resume |-> spanCheck.resume,
                          spans |-> spanCheck.spans + (IF target = 0 THEN 0 ELSE 1)]
                    ELSE spanCheck
    /\ UNCHANGED <<mode, heads, target, liveCh, dropped, bcast, subs, cancelled,
                   exited, reads, mu, rb>>

\* handleWebSocket: one turn of a handler's loop takes an entry off the live
\* channel and writes it to its connection as a frame of type "log".
WsReceive(s) ==
    /\ subs[s].open
    /\ liveCh # <<>>
    /\ subs' = [subs EXCEPT ![s].frames = Append(@, Head(liveCh))]
    /\ liveCh' = Tail(liveCh)
    /\ last' = [op |-> "WsReceive"]
    /\ UNCHANGED <<batchVars, envVars, storageVars, pc, cursor, pipelineVars, pendVars,
                   committed, firstRun, mode, heads, target, spanCheck, dropped,
                   bcast, cancelled, exited, reads, mu, rb>>

\* handleWebSocket returns: the request is done or a write failed.
WsClose(s) ==
    /\ subs[s].open
    /\ subs' = [subs EXCEPT ![s].open = FALSE]
    /\ last' = [op |-> "WsClose"]
    /\ UNCHANGED <<batchVars, envVars, storageVars, pc, cursor, pipelineVars, pendVars,
                   committed, firstRun, mode, heads, target, spanCheck, liveCh,
                   dropped, bcast, cancelled, exited, reads, mu, rb>>

\* The root scope is cancelled.
Cancel ==
    /\ ~cancelled
    /\ cancelled' = TRUE
    /\ exited' = [exited EXCEPT !.mid = MidCommit]
    /\ last' = [op |-> "Cancel"]
    /\ UNCHANGED <<batchVars, envVars, storageVars, pc, cursor, pipelineVars, pendVars,
                   committed, firstRun, mode, heads, target, spanCheck, liveCh,
                   dropped, bcast, subs, reads, mu, rb>>

\* A fetcher gives up its call in flight and exits.
FetcherExit(w) ==
    /\ cancelled
    /\ w \notin exited.fetchers
    /\ fetching' = [fetching EXCEPT ![w] = 0]
    /\ exited' = [exited EXCEPT !.fetchers = @ \cup {w}]
    /\ last' = [op |-> "FetcherExit"]
    /\ UNCHANGED <<batchVars, envVars, storageVars, pc, cursor, windows, nextFetch,
                   buffer, nextCommit, pendVars, committed, firstRun, mode, heads,
                   target, spanCheck, liveCh, dropped, bcast, subs, cancelled, reads, mu, rb>>

\* The tailer exits.
TailerExit ==
    /\ cancelled
    /\ ~exited.tailer
    /\ exited' = [exited EXCEPT !.tailer = TRUE]
    /\ last' = [op |-> "TailerExit"]
    /\ UNCHANGED <<batchVars, envVars, storageVars, pc, cursor, pipelineVars, pendVars,
                   committed, firstRun, mode, heads, target, spanCheck, liveCh,
                   dropped, bcast, subs, cancelled, reads, mu, rb>>

\* A committer that exits wherever it stands.
CommitterMayExitAnywhere(committing) == TRUE

\* The committer exits only between two window commits.
CommitterMayExit(committing) == ~committing

\* The committer writes a final checkpoint from its cursor and exits.
CommitterExit ==
    /\ cancelled
    /\ ~exited.committer
    /\ CommitterMayExit(Committing)
    /\ checkpoint' = IF pc = "boot" THEN checkpoint ELSE SaveCheckpoint(cursor)
    /\ committed' = [logs |-> logs, blockmap |-> blockmap, checkpoint |-> checkpoint']
    /\ exited' = [exited EXCEPT !.committer = TRUE]
    /\ last' = [op |-> "CommitterExit"]
    /\ UNCHANGED <<batchVars, envVars, logs, blockmap, pc, cursor, pipelineVars,
                   pendVars, firstRun, mode, heads, target, spanCheck, liveCh,
                   dropped, bcast, subs, cancelled, reads, mu, rb>>

\* The steps that finish a window commit in progress.
LiveCommitStep ==
    \/ LiveCommitLog
    \/ CommitAnchor
    \/ LiveCommitCheckpoint

\* The tailer in either mode over a growing, reorganising chain.
TailerInit == LiveStart({"push", "poll"}, 0)

TailerNext ==
    \/ LiveBoot
    \/ LiveReorgCheck
    \/ LivePlan
    \/ PushTick
    \/ PollTick
    \/ \E w \in 1..Workers : LiveFetchTake(w)
    \/ \E w \in 1..Workers : LiveFetchDeliver(w)
    \/ LiveCommitBegin
    \/ CommitLog
    \/ CommitAnchor
    \/ LiveCommitCheckpoint
    \/ NewHead
    \/ \E b \in DOMAIN chain : LiveReorg(b)

TailerSpec == TailerInit /\ [][TailerNext]_vars

(* ------------------------------ API readers ---------------------------- *)

\* The service with API readers; nothing has been read yet.
ReadInit ==
    /\ chain = [b \in Blocks |-> 0]
    /\ reorgs = 0
    /\ crashes = 0
    /\ logs = EmptyMap
    /\ blockmap = EmptyMap
    /\ checkpoint = NoCheckpoint
    /\ pc = "boot"
    /\ cursor = [lastProcessedBlock |-> StartBlock - 1, nextIndex |-> 0,
                 lastBlockHash |-> NoHash]
    /\ windows = <<>>
    /\ nextFetch = 1
    /\ fetching = [w \in 1..Workers |-> 0]
    /\ buffer = EmptyMap
    /\ nextCommit = 1
    /\ pendLogs = <<>>
    /\ pendAnchors = <<>>
    /\ pendCkpt = NoCheckpoint
    /\ pendPre = [window |-> 0]
    /\ committed = [logs |-> EmptyMap, blockmap |-> EmptyMap,
                    checkpoint |-> NoCheckpoint]
    /\ firstRun = [present |-> FALSE]
    /\ last = [op |-> "Init"]
    /\ BatchOff
    /\ mode = "off"
    /\ heads = <<>>
    /\ target = 0
    /\ spanCheck = [checked |-> FALSE]
    /\ liveCh = <<>>
    /\ dropped = 0
    /\ bcast = [outcome |-> "none"]
    /\ subs = <<>>
    /\ cancelled = FALSE
    /\ exited = {}
    /\ reads = [prev |-> 0, n |-> 0, view |-> <<>>, rolled |-> FALSE,
                pending |-> FALSE]
    /\ mu = "free"
    /\ rb = [pc |-> "idle"]

\* One read of an API reader: GetLogsByRange from index 0 without end or limit,
\* one read-only bolt transaction; n is the number of records it returns.
Read ==
    /\ reads' = [prev |-> reads.n,
                 n |-> Len(GetLogsByRange(logs, 0, 0, 0)),
                 view |-> LET res == GetLogsByRange(logs, 0, 0, 0)
                          IN  [i \in 1..Len(res) |-> res[i].index],
                 rolled |-> reads.pending,
                 pending |-> FALSE]
    /\ last' = [op |-> "Read"]
    /\ UNCHANGED <<batchVars, envVars, storageVars, pc, cursor, pipelineVars, pendVars,
                   committed, firstRun, mode, heads, target, spanCheck, liveCh,
                   dropped, bcast, subs, cancelled, exited, mu, rb>>

\* The reorg check; a rollback is noted for the reader.
ReadReorgCheck ==
    /\ ReorgCheckStep
    /\ reads' = [reads EXCEPT !.pending = @ \/ last'.op = "Rollback"]
    /\ UNCHANGED <<mode, heads, target, spanCheck, liveCh, dropped, bcast, subs,
                   cancelled, exited, mu, rb>>

\* Commits, rollbacks and reads in any interleaving.
ReadNext ==
    \/ Boot
    \/ ReadReorgCheck
    \/ Plan
    \/ Tick
    \/ \E w \in 1..Workers : FetchTake(w)
    \/ \E w \in 1..Workers : FetchDeliver(w)
    \/ CommitBegin
    \/ CommitLog
    \/ CommitAnchor
    \/ CommitCheckpoint
    \/ \E b \in Blocks : Reorg(b)
    \/ Read

ReadSpec == ReadInit /\ [][ReadNext]_vars

\* The tailer in poll mode over a growing chain, with WebSocket clients.
BroadcastInit == LiveStart({"poll"}, MaxSubs)

BroadcastNext ==
    \/ LiveBoot
    \/ LiveReorgCheck
    \/ LivePlan
    \/ PollTick
    \/ \E w \in 1..Workers : LiveFetchTake(w)
    \/ \E w \in 1..Workers : LiveFetchDeliver(w)
    \/ LiveCommitBegin
    \/ LiveCommitLog
    \/ CommitAnchor
    \/ LiveCommitCheckpoint
    \/ NewHead
    \/ \E c \in DOMAIN subs : WsReceive(c)
    \/ \E c \in DOMAIN subs : WsClose(c)

BroadcastSpec == BroadcastInit /\ [][BroadcastNext]_vars

\* Every task of the service has exited.
AllExited ==
    /\ exited.fetchers = 1..Workers
    /\ exited.tailer
    /\ exited.committer

\* The service over a growing chain, until and after the root scope is
\* cancelled.
ShutdownNext ==
    \/ LiveBoot
    \/ LiveReorgCheck
    \/ LivePlan
    \/ PushTick
    \/ PollTick
    \/ \E w \in 1..Workers : LiveFetchTake(w)
    \/ \E w \in 1..Workers : LiveFetchDeliver(w)
    \/ LiveCommitBegin
    \/ CommitLog
    \/ CommitAnchor
    \/ LiveCommitCheckpoint
    \/ NewHead
    \/ Cancel
    \/ \E w \in 1..Workers : FetcherExit(w)
    \/ TailerExit
    \/ CommitterExit

\* No task is suspended for ever: a storage transaction and an exit that can
\* be made are made in the end.
ShutdownFairness ==
    /\ WF_vars(CommitLog)
    /\ WF_vars(CommitAnchor)
    /\ WF_vars(LiveCommitCheckpoint)
    /\ \A w \in 1..Workers : WF_vars(FetcherExit(w))
    /\ WF_vars(TailerExit)
    /\ WF_vars(CommitterExit)

ShutdownSpec == TailerInit /\ [][ShutdownNext]_vars /\ ShutdownFairness

(* ------------------ reorg detection on its own timer ------------------- *)

\* A committer's storage call: s.mu.Lock(), one bolt Update, s.mu.Unlock().
MuCommitLog == mu = "free" /\ CommitLog

MuCommitAnchor == mu = "free" /\ CommitAnchor

MuCommitCheckpoint == mu = "free" /\ CommitCheckpoint

\* The periodic reorg detection finds the cursor's block replaced and calls
\* Storage.Rollback(A), which takes s.mu.
RollbackLock ==
    /\ pc \in {"run", "idle"}
    /\ mu = "free"
    /\ rb.pc = "idle"
    /\ cursor.lastProcessedBlock >= StartBlock
    /\ HeaderHash(chain, cursor.lastProcessedBlock) # cursor.lastBlockHash
    /\ Matching(chain, blockmap, cursor.lastProcessedBlock) # {}
    /\ mu' = "rollback"
    /\ rb' = [pc |-> "locked",
              toBlock |-> CommonAncestor(chain, blockmap, cursor.lastProcessedBlock),
              pre |-> Storage, mid |-> MidCommit]
    /\ last' = [op |-> "RollbackLock"]
    /\ UNCHANGED <<batchVars, envVars, storageVars, pc, cursor, pipelineVars, pendVars,
                   committed, firstRun, mode, heads, target, spanCheck, liveCh,
                   dropped, bcast, subs, cancelled, exited, reads>>

\* Rollback's bolt Update commits and s.mu is released; ingest resumes from
\* the block after the common ancestor.
RollbackUpdate ==
    /\ rb.pc = "locked"
    /\ logs' = Rollback(logs, rb.toBlock)
    /\ mu' = "free"
    /\ rb' = [pc |-> "idle"]
    /\ cursor' = [lastProcessedBlock |-> rb.toBlock,
                  nextIndex |-> GetTotalCount(logs'),
                  lastBlockHash |-> GetBlockHash(blockmap, rb.toBlock)]
    /\ pc' = "plan"
    /\ pendLogs' = <<>>
    /\ pendAnchors' = <<>>
    /\ pendCkpt' = NoCheckpoint
    /\ pendPre' = [window |-> 0]
    /\ committed' = [logs |-> logs', blockmap |-> blockmap, checkpoint |-> checkpoint]
    /\ firstRun' = [present |-> TRUE, logs |-> logs, toBlock |-> rb.toBlock,
                    from |-> cursor.lastProcessedBlock]
    /\ last' = [op |-> "Rollback", toBlock |-> rb.toBlock,
                from |-> cursor.lastProcessedBlock,
                expected |-> cursor.lastBlockHash, pre |-> Storage, live |-> chain,
                mid |-> rb.mid]
    /\ UNCHANGED <<batchVars, envVars, blockmap, checkpoint, pipelineVars, mode, heads,
                   target, spanCheck, liveCh, dropped, bcast, subs, cancelled,
                   exited, reads>>

\* The committer and the reorg detection run side by side over the storage.
TimerNext ==
    \/ Boot
    \/ Plan
    \/ \E w \in 1..Workers : FetchTake(w)
    \/ \E w \in 1..Workers : FetchDeliver(w)
    \/ CommitBegin
    \/ MuCommitLog
    \/ MuCommitAnchor
    \/ MuCommitCheckpoint
    \/ \E b \in Blocks : Reorg(b)
    \/ RollbackLock
    \/ RollbackUpdate

TimerSpec == Init /\ [][TimerNext]_vars

(* ------------------------- batch program (main.go) --------------------- *)

\* The service is not running.
EngineOff ==
    /\ chain = [b \in Blocks |-> 0]
    /\ reorgs = 0
    /\ crashes = 0
    /\ logs = EmptyMap
    /\ blockmap = EmptyMap
    /\ checkpoint = NoCheckpoint
    /\ pc = "off"
    /\ cursor = [lastProcessedBlock |-> StartBlock - 1, nextIndex |-> 0,
                 lastBlockHash |-> NoHash]
    /\ windows = <<>>
    /\ nextFetch = 1
    /\ fetching = [w \in 1..Workers |-> 0]
    /\ buffer = EmptyMap
    /\ nextCommit = 1
    /\ pendLogs = <<>>
    /\ pendAnchors = <<>>
    /\ pendCkpt = NoCheckpoint
    /\ pendPre = [window |-> 0]
    /\ committed = [logs |-> EmptyMap, blockmap |-> EmptyMap,
                    checkpoint |-> NoCheckpoint]
    /\ firstRun = [present |-> FALSE]
    /\ last = [op |-> "Off"]

\* Widths of the configured block range: around each multiple of
\* MAX_BLOCK_RANGE, and a single block.
Spans ==
    {1} \cup UNION {{k * MAX_BLOCK_RANGE - 1, k * MAX_BLOCK_RANGE,
                     k * MAX_BLOCK_RANGE + 1} : k \in 1..MaxSpans}

Configs ==
    {[StartBlock |-> sb, EndBlock |-> sb + span - 1, NumWorkers |-> nw] :
        sb \in {0, 1}, span \in Spans, nw \in 1..MaxNumWorkers}

BatchInit ==
    /\ EngineOff
    /\ LiveOff
    /\ config \in Configs
    /\ mpc = "generate"
    /\ gen = [startBlock |-> config.StartBlock, currentIndex |-> 0]
    /\ batches = <<>>
    /\ batchChan = <<>>
    /\ workers = [w \in 1..config.NumWorkers |-> [pc |-> "idle", batch |-> 0]]
    /\ workerDbs = EmptyMap
    /\ errors = <<>>
    /\ errorCount = 0
    /\ finalDb = EmptyMap
    /\ merged = 0
    /\ fetched = {}
    /\ failed = {}
    /\ queries = {}

\* generateAdaptiveBatches with the clamp to EndBlock left out.
BatchEndNoClamp(startBlock, EndBlock) == startBlock + MAX_BLOCK_RANGE - 1

\* generateAdaptiveBatches: endBlock of the batch that starts at startBlock.
BatchEnd(startBlock, EndBlock) ==
    IF startBlock + MAX_BLOCK_RANGE - 1 > EndBlock
    THEN EndBlock
    ELSE startBlock + MAX_BLOCK_RANGE - 1

\* One iteration of generateAdaptiveBatches: the pre-analysis FilterLogs call
\* answers n logs, or fails and main() gives up.
GenerateBatch ==
    /\ mpc = "generate"
    /\ gen.startBlock <= config.EndBlock
    /\ queries' = queries \cup
          {[FromBlock |-> gen.startBlock,
            ToBlock |-> BatchEnd(gen.startBlock, config.EndBlock)]}
    /\ \E n \in -1..MaxBatchLogs :
          IF n = -1
          THEN /\ mpc' = "fatal"
               /\ UNCHANGED <<gen, batches>>
          ELSE LET endBlock == BatchEnd(gen.startBlock, config.EndBlock)
                   batchID == Len(batches)
               IN  /\ batches' = Append(batches,
                          [WorkerID |-> batchID % config.NumWorkers,
                           BatchID |-> batchID,
                           StartBlock |-> gen.startBlock,
                           EndBlock |-> endBlock,
                           StartIndex |-> gen.currentIndex,
                           LogCount |-> n])
                   /\ gen' = [startBlock |-> endBlock + 1,
                              currentIndex |-> gen.currentIndex + n]
                   /\ mpc' = mpc
    /\ UNCHANGED <<engineVars, liveVars, config, batchChan, workers, workerDbs, errors,
                   errorCount, finalDb, merged, fetched, failed>>

\* The loop ends; main() starts the workers and sends every batch, in order,
\* on batchChan (which holds them all), then closes it.
StartWorkers ==
    /\ mpc = "generate"
    /\ gen.startBlock > config.EndBlock
    /\ mpc' = "workers"
    /\ batchChan' = [i \in 1..Len(batches) |-> batches[i].BatchID]
    /\ UNCHANGED <<engineVars, liveVars, config, gen, batches, workers, workerDbs, errors,
                   errorCount, finalDb, merged, fetched, failed, queries>>

\* A receive that leaves the value on the channel for the next receiver.
AfterReceivePeek(ch) == ch

\* batch := <-batchChan: the channel after the receive; the value goes to
\* this one receiver.
AfterReceive(ch) == Tail(ch)

\* A worker receives the next batch from batchChan.
WorkerTake(w) ==
    /\ mpc = "workers"
    /\ workers[w].pc = "idle"
    /\ batchChan # <<>>
    /\ workers' = [workers EXCEPT ![w] = [pc |-> "busy", batch |-> Head(batchChan)]]
    /\ batchChan' = AfterReceive(batchChan)
    /\ UNCHANGED <<engineVars, liveVars, config, mpc, gen, batches, workerDbs, errors,
                   errorCount, finalDb, merged, fetched, failed, queries>>

\* The n logs a FilterLogs call answers for a batch's block span.
BatchLogs(batch, n) ==
    [i \in 1..n |-> [BlockNumber |-> batch.StartBlock, LogIndex |-> i - 1]]

\* processAdaptiveBatch: the entries of the batch database, entry i of the
\* fetched logs under Index = batch.StartIndex + i.
BatchEntries(batch, fetchedLogs) ==
    [k \in {batch.StartIndex + i - 1 : i \in 1..Len(fetchedLogs)} |->
        [Index |-> k,
         BlockNumber |-> fetchedLogs[k - batch.StartIndex + 1].BlockNumber,
         LogIndex |-> fetchedLogs[k - batch.StartIndex + 1].LogIndex]]

\* processAdaptiveBatch with the range check off by one: a span of
\* MAX_BLOCK_RANGE + 1 blocks passes.
ExceedsMaxRangeOffByOne(batch) ==
    batch.EndBlock - batch.StartBlock > MAX_BLOCK_RANGE

\* processAdaptiveBatch: blockRange > MAX_BLOCK_RANGE.
ExceedsMaxRange(batch) ==
    batch.EndBlock - batch.StartBlock + 1 > MAX_BLOCK_RANGE

\* db.Update that keeps the puts of a transaction whose function failed.
UpdateNoRollback(before, puts, err) == puts @@ before

\* bolt db.Update: the transaction's puts are committed when its function
\* returns nil and rolled back when it returns an error.
Update(before, puts, err) == IF err THEN before ELSE puts @@ before

\* processAdaptiveBatch, whole: the batch database is created; a span wider
\* than MAX_BLOCK_RANGE is refused before the RPC; FilterLogs answers n logs
\* or fails; the entries are put in one transaction, in which the block
\* lookup of log failAt fails (0: none does). An error goes to the errors
\* channel next. FilterLogs answers at most maxLogs logs.
ProcessAdaptiveBatchOf(w, maxLogs) ==
    /\ mpc = "workers"
    /\ workers[w].pc = "busy"
    /\ LET id == workers[w].batch
           batch == batches[id + 1]
       IN  IF ExceedsMaxRange(batch)
           THEN /\ workerDbs' = (id :> EmptyMap) @@ workerDbs
                /\ workers' = [workers EXCEPT ![w].pc = "report"]
                /\ failed' = failed \cup {id}
                /\ UNCHANGED <<fetched, queries>>
           ELSE /\ queries' = queries \cup
                      {[FromBlock |-> batch.StartBlock,
                        ToBlock |-> batch.EndBlock]}
                /\ \E n \in -1..maxLogs, failAt \in 0..maxLogs :
                      /\ failAt <= n \/ failAt = 0
                      /\ IF n = -1
                         THEN /\ workerDbs' = (id :> EmptyMap) @@ workerDbs
                              /\ workers' = [workers EXCEPT ![w].pc = "report"]
                              /\ failed' = failed \cup {id}
                              /\ UNCHANGED fetched
                         ELSE LET fetchedLogs == BatchLogs(batch, n)
                                  blockFails == failAt > 0
                                  puts == IF blockFails THEN failAt - 1 ELSE n
                              IN  /\ fetched' = IF blockFails THEN fetched
                                         ELSE fetched \cup
                                              {fetchedLogs[i] : i \in 1..n}
                                  /\ failed' = IF blockFails
                                               THEN failed \cup {id}
                                               ELSE failed
                                  /\ workerDbs' =
                                        (id :> Update(EmptyMap,
                                                  BatchEntries(batch,
                                                      SubSeq(fetchedLogs, 1, puts)),
                                                  blockFails))
                                        @@ workerDbs
                                  /\ workers' = [workers EXCEPT ![w] =
                                        IF blockFails
                                        THEN [pc |-> "report", batch |-> id,
                                              puts |-> puts]
                                        ELSE [pc |-> "idle", batch |-> id]]
    /\ UNCHANGED <<engineVars, liveVars, config, mpc, gen, batches, batchChan, errors,
                   errorCount, finalDb, merged>>

ProcessAdaptiveBatch(w) == ProcessAdaptiveBatchOf(w, MaxProcessLogs)

\* The worker sends its batch's error on the errors channel, which holds
\* NumWorkers*10 of them.
WorkerReport(w) ==
    /\ mpc = "workers"
    /\ workers[w].pc = "report"
    /\ Len(errors) < config.NumWorkers * ErrorsPerWorker
    /\ errors' = Append(errors, workers[w].batch)
    /\ workers' = [workers EXCEPT ![w] = [pc |-> "idle", batch |-> @.batch]]
    /\ UNCHANGED <<engineVars, liveVars, config, mpc, gen, batches, batchChan, workerDbs,
                   errorCount, finalDb, merged, fetched, failed, queries>>

\* batchChan is closed and empty: the worker's range loop ends.
WorkerExit(w) ==
    /\ mpc = "workers"
    /\ workers[w].pc = "idle"
    /\ batchChan = <<>>
    /\ workers' = [workers EXCEPT ![w].pc = "exit"]
    /\ UNCHANGED <<engineVars, liveVars, config, mpc, gen, batches, batchChan, workerDbs,
                   errors, errorCount, finalDb, merged, fetched, failed, queries>>

\* wg.Wait() returns; main() closes the errors channel and reports what it
\* holds.
WaitDone ==
    /\ mpc = "workers"
    /\ \A w \in DOMAIN workers : workers[w].pc = "exit"
    /\ errorCount' = Len(errors)
    /\ errors' = <<>>
    /\ mpc' = "consolidate"
    /\ UNCHANGED <<engineVars, liveVars, config, gen, batches, batchChan, workers,
                   workerDbs, finalDb, merged, fetched, failed, queries>>

\* consolidateAllBatches: finalBucket.Put(k, v) for every key of the batch
\* database.
MergeBatch(final, db) == db @@ final

\* One iteration of consolidateAllBatches: the next batch's database is
\* merged into the final one and removed.
ConsolidateBatch ==
    /\ mpc = "consolidate"
    /\ merged < Len(batches)
    /\ LET id == batches[merged + 1].BatchID
       IN  /\ finalDb' = MergeBatch(finalDb, workerDbs[id])
           /\ workerDbs' = [k \in DOMAIN workerDbs \ {id} |-> workerDbs[k]]
    /\ merged' = merged + 1
    /\ UNCHANGED <<engineVars, liveVars, config, mpc, gen, batches, batchChan, workers,
                   errors, errorCount, fetched, failed, queries>>

\* Consolidation is over.
ConsolidateDone ==
    /\ mpc = "consolidate"
    /\ merged = Len(batches)
    /\ mpc' = "done"
    /\ UNCHANGED <<engineVars, liveVars, config, gen, batches, batchChan, workers,
                   workerDbs, errors, errorCount, finalDb, merged, fetched, failed, queries>>

BatchNext ==
    \/ GenerateBatch
    \/ StartWorkers
    \/ \E w \in DOMAIN workers : WorkerTake(w)
    \/ \E w \in DOMAIN workers : ProcessAdaptiveBatch(w)
    \/ \E w \in DOMAIN workers : WorkerReport(w)
    \/ \E w \in DOMAIN workers : WorkerExit(w)
    \/ WaitDone
    \/ ConsolidateBatch
    \/ ConsolidateDone

BatchSpec == BatchInit /\ [][BatchNext]_vars

\* Any BatchInfo processAdaptiveBatch can be called with: its span is not
\* bound to what generateAdaptiveBatches plans.
BatchInfos ==
    {[WorkerID |-> 0, BatchID |-> 0, StartBlock |-> sb,
      EndBlock |-> sb + span - 1, StartIndex |-> 0, LogCount |-> n] :
        sb \in {0, 1}, span \in Spans, n \in 0..MaxBatchLogs}

\* A worker is handed one BatchInfo, whatever its span.
AnyBatchInit ==
    /\ EngineOff
    /\ LiveOff
    /\ \E b \in BatchInfos :
          /\ batches = <<b>>
          /\ config = [StartBlock |-> b.StartBlock, EndBlock |-> b.EndBlock,
                       NumWorkers |-> 1]
          /\ gen = [startBlock |-> b.EndBlock + 1, currentIndex |-> b.LogCount]
    /\ mpc = "workers"
    /\ batchChan = <<0>>
    /\ workers = [w \in 1..1 |-> [pc |-> "idle", batch |-> 0]]
    /\ workerDbs = EmptyMap
    /\ errors = <<>>
    /\ errorCount = 0
    /\ finalDb = EmptyMap
    /\ merged = 0
    /\ fetched = {}
    /\ failed = {}
    /\ queries = {}

\* The batch program, and processAdaptiveBatch on any BatchInfo.
ProcessBatchSpec == (BatchInit \/ AnyBatchInit) /\ [][BatchNext]_vars

\* generateAdaptiveBatches over [startBlock, cfg.EndBlock] when no block of
\* the range holds a matching log.
RECURSIVE PlannedBatches(_, _, _)
PlannedBatches(cfg, startBlock, batchID) ==
    IF startBlock > cfg.EndBlock THEN <<>>
    ELSE LET endBlock == BatchEnd(startBlock, cfg.EndBlock)
         IN  <<[WorkerID |-> batchID % cfg.NumWorkers, BatchID |-> batchID,
                StartBlock |-> startBlock, EndBlock |-> endBlock,
                StartIndex |-> 0, LogCount |-> 0]>>
             \o PlannedBatches(cfg, endBlock + 1, batchID + 1)

\* One worker and one batch more than its share of the errors channel.
ManyBatchesConfig ==
    [StartBlock |-> 0,
     EndBlock |-> (ErrorsPerWorker + 1) * MAX_BLOCK_RANGE - 1,
     NumWorkers |-> 1]

\* main() has generated the batches of a range without matching logs,
\* started the workers and sent every batch on batchChan.
ManyBatchesInit ==
    /\ EngineOff
    /\ LiveOff
    /\ config = ManyBatchesConfig
    /\ mpc = "workers"
    /\ gen = [startBlock |-> config.EndBlock + 1, currentIndex |-> 0]
    /\ batches = PlannedBatches(config, config.StartBlock, 0)
    /\ batchChan = [i \in 1..Len(batches) |-> batches[i].BatchID]
    /\ workers = [w \in 1..config.NumWorkers |-> [pc |-> "idle", batch |-> 0]]
    /\ workerDbs = EmptyMap
    /\ errors = <<>>
    /\ errorCount = 0
    /\ finalDb = EmptyMap
    /\ merged = 0
    /\ fetched = {}
    /\ failed = {}
    /\ queries = {}

ManyBatchesNext ==
    \/ \E w \in DOMAIN workers : WorkerTake(w)
    \/ \E w \in DOMAIN workers : ProcessAdaptiveBatchOf(w, 0)
    \/ \E w \in DOMAIN workers : WorkerReport(w)
    \/ \E w \in DOMAIN workers : WorkerExit(w)
    \/ WaitDone
    \/ ConsolidateBatch
    \/ ConsolidateDone

\* Every goroutine that can take a step eventually takes one.
ManyBatchesSpec ==
    ManyBatchesInit /\ [][ManyBatchesNext]_vars /\ WF_vars(ManyBatchesNext)

(* ------------------------ HTTP API (server.go) ------------------------- *)

\* uint64 arithmetic wraps; the width is scaled down to the integers the
\* model checker has, far above every index, count and limit of the model.
Uint64Mod == Pow2(30)
Uint64(x) == x % Uint64Mod

\* Transaction hashes of the stored records.
TxHashes == {"a", "b"}

\* A query parameter as q.Get returns it: absent (""), or a decimal number.
NumParams(vals) ==
    {[kind |-> "unset"]} \cup {[kind |-> "num", val |-> v] : v \in vals}

\* The same, or text that is no number.
Params(vals) == {[kind |-> "bad"]} \cup NumParams(vals)

\* parseUint64: the default for "", for text strconv.ParseUint rejects (a
\* sign included), the value otherwise.
parseUint64(p, defaultVal) ==
    IF p.kind = "num" /\ p.val >= 0 THEN p.val ELSE defaultVal

\* parseInt: the default for "" and for text strconv.Atoi rejects.
parseInt(p, defaultVal) == IF p.kind = "num" THEN p.val ELSE defaultVal

\* A Go slice: nil, or made with its elements.
NilSlice == [nil |-> TRUE, elems |-> <<>>]
MakeSlice(elems) == [nil |-> FALSE, elems |-> elems]

\* json.NewEncoder(w).Encode of a slice: null for nil, an array otherwise.
EncodeSlice(sl) ==
    IF sl.nil THEN [json |-> "null", items |-> <<>>]
    ELSE [json |-> "array", items |-> sl.elems]

\* The requests GET /v1/logs is called with.
LogsQueries ==
    [startIndex : NumParams(0..MaxApiLogs - 1),
     endIndex : NumParams(0..MaxApiLogs - 1),
     blockNumber : Params(0..MaxApiBlock),
     txHash : {""} \cup TxHashes,
     limit : NumParams(-1..MaxApiLogs - 1)]

\* handleGetLogs: the response to query q over bucket l.
GetLogs(l, q) ==
    LET startIndex0 == parseUint64(q.startIndex, 0)
        endIndex0 == parseUint64(q.endIndex, 0)
        blockNumber == parseUint64(q.blockNumber, 0)
        limit == parseInt(q.limit, DefaultLimit)
        total == GetTotalCount(l)
        latest == startIndex0 = 0 /\ endIndex0 = 0 /\ limit > 0 /\ total > 0
        startIndex == IF latest THEN Uint64(total - limit) ELSE startIndex0
        endIndex == IF latest THEN total - 1 ELSE endIndex0
        found ==
            IF blockNumber > 0
            THEN MakeSlice(GetLogsByBlockNumber(l, blockNumber))
            ELSE IF q.txHash # ""
            THEN MakeSlice(GetLogsByTxHash(l, q.txHash))
            ELSE MakeSlice(GetLogsByRange(l, startIndex, endIndex, limit))
        out == IF found.nil THEN MakeSlice(<<>>) ELSE found
    IN  [status |-> 200, body |-> EncodeSlice(out)]

\* The service is serving requests over a store the committer fills; no
\* request has been made.
ApiInit ==
    /\ EngineOff
    /\ BatchOff
    /\ mode = "off"
    /\ heads = <<>>
    /\ target = 0
    /\ spanCheck = [checked |-> FALSE]
    /\ liveCh = <<>>
    /\ dropped = 0
    /\ bcast = [outcome |-> "none"]
    /\ subs = <<>>
    /\ cancelled = FALSE
    /\ exited = {}
    /\ reads = [op |-> "none"]
    /\ mu = "free"
    /\ rb = [pc |-> "idle", removed |-> {}]

ApiFrame ==
    UNCHANGED <<batchVars, chain, reorgs, crashes, blockmap, checkpoint, pc,
                cursor, windows, nextFetch, fetching, buffer, nextCommit,
                pendLogs, pendAnchors, pendCkpt, pendPre, committed,
                firstRun, last, mode, heads, target, spanCheck, liveCh,
                dropped, bcast, subs, cancelled, exited, mu>>

\* The committer stores the next record: its block is not below the last
\* stored record's.
ApiStoreLog ==
    /\ GetTotalCount(logs) < MaxApiLogs
    /\ LET next == GetLastIndex(logs)
           low == IF next = 0 THEN 0 ELSE logs[next - 1].blockNumber
       IN  \E bn \in low..MaxApiBlock, tx \in TxHashes :
              logs' = StoreLog(logs, [index |-> next, blockNumber |-> bn,
                                      blockHash |-> bn + 1, logIndex |-> next,
                                      txHash |-> tx])
    /\ reads' = [op |-> "none"]
    /\ rb' = [pc |-> "idle", removed |-> {}]
    /\ ApiFrame

\* The reorg handler rolls the store back to block b.
ApiRollback ==
    /\ \E b \in 0..MaxApiBlock :
          /\ Rollback(logs, b) # logs
          /\ logs' = Rollback(logs, b)
          /\ rb' = [pc |-> "idle",
                    removed |-> DOMAIN logs \ DOMAIN Rollback(logs, b)]
    /\ reads' = [op |-> "none"]
    /\ ApiFrame

\* The handlers keep no state between requests: one request is followed at
\* a time, the next one after the store has changed.
NoRequest == reads.op = "none"

\* GET /v1/logs
HandleGetLogs ==
    /\ NoRequest
    /\ \E q \in LogsQueries :
          reads' = [op |-> "GetLogs", q |-> q, resp |-> GetLogs(logs, q)]
    /\ UNCHANGED <<logs, rb>>
    /\ ApiFrame

\* handleLogQuery: the response to GET /v1/logs/{index} over bucket l.
LogQuery(l, indexStr) ==
    IF indexStr.kind = "unset" THEN [status |-> 301]
    ELSE IF ~(indexStr.kind = "num" /\ indexStr.val >= 0)
    THEN [status |-> 400]
    ELSE LET got == GetLog(l, indexStr.val)
         IN  IF ~got.found THEN [status |-> 404]
             ELSE [status |-> 200, body |-> got.entry]

\* GET /v1/logs/{index}
HandleLogQuery ==
    /\ NoRequest
    /\ \E indexStr \in Params(-1..MaxApiLogs) :
          reads' = [op |-> "LogQuery", indexStr |-> indexStr,
                    resp |-> LogQuery(logs, indexStr)]
    /\ UNCHANGED <<logs, rb>>
    /\ ApiFrame

\* handleHealth with the threshold itself counted as lagging.
LaggingFromThreshold(headLag) == headLag >= LagThreshold

\* handleHealth: stats.HeadLag > 128
Lagging(headLag) == headLag > LagThreshold

\* The snapshots GetStats answers, and its error.
StatsSnapshots ==
    [err : {FALSE},
     HeadLag : {0, LagThreshold - 1, LagThreshold, LagThreshold + 1},
     LastBlockNumber : 0..MaxApiBlock,
     TotalIndexed : 0..MaxApiLogs]
    \cup {[err |-> TRUE]}

\* handleHealth: the response for what GetStats answered.
Health(stats) ==
    IF stats.err THEN [status |-> 500]
    ELSE [status |-> 200,
          body |-> [Status |-> IF Lagging(stats.HeadLag) THEN "lagging"
                               ELSE "healthy",
                    LastBlockIndexed |-> stats.LastBlockNumber,
                    TotalIndexed |-> stats.TotalIndexed,
                    HeadLag |-> stats.HeadLag]]

\* GET /v1/health
HandleHealth ==
    /\ NoRequest
    /\ \E stats \in StatsSnapshots :
          reads' = [op |-> "Health", stats |-> stats, resp |-> Health(stats)]
    /\ UNCHANGED <<logs, rb>>
    /\ ApiFrame

\* A caller of the storage runs GetLogsByRange(start, end, limit).
RangeLogs ==
    /\ NoRequest
    /\ \E startIndex \in 0..MaxApiLogs, endIndex \in 0..MaxApiLogs,
          limit \in -1..MaxApiLogs :
          reads' = [op |-> "RangeLogs", startIndex |-> startIndex,
                    endIndex |-> endIndex, limit |-> limit,
                    result |-> GetLogsByRange(logs, startIndex, endIndex, limit)]
    /\ UNCHANGED <<logs, rb>>
    /\ ApiFrame

ApiNext ==
    \/ ApiStoreLog
    \/ ApiRollback
    \/ HandleGetLogs
    \/ HandleLogQuery
    \/ HandleHealth
    \/ RangeLogs

ApiSpec == ApiInit /\ [][ApiNext]_vars

(* ----------------------- startup configuration ------------------------- *)

\* The configurations the service is started with.
ServiceConfigs ==
    [RPC : {"", "ws://node"},
     ContractAddr : {"", "0xA13D"},
     EventTopic : {"", "0x3e54"},
     Workers : {-1, 0, 1, 2, 8, 63, 64, 65, 100}]

\* Config.Validate: the first required value that is empty is the error's
\* Field; no error otherwise.
Validate(c) ==
    IF c.RPC = "" THEN [err |-> TRUE, Field |-> "rpc"]
    ELSE IF c.ContractAddr = "" THEN [err |-> TRUE, Field |-> "contract"]
    ELSE IF c.EventTopic = "" THEN [err |-> TRUE, Field |-> "topic"]
    ELSE [err |-> FALSE]

\* The configuration is loaded; nothing runs yet.
StartupInit ==
    /\ EngineOff
    /\ LiveOff
    /\ config \in ServiceConfigs
    /\ mpc = "off"
    /\ gen = [startBlock |-> 0, currentIndex |-> 0]
    /\ batches = <<>>
    /\ batchChan = <<>>
    /\ workers = [w \in {} |-> 0]
    /\ workerDbs = EmptyMap
    /\ errors = <<>>
    /\ errorCount = 0
    /\ finalDb = EmptyMap
    /\ merged = 0
    /\ fetched = {}
    /\ failed = {}
    /\ queries = {}

\* Startup: the configuration is validated.
Startup ==
    /\ pc = "off"
    /\ last.op = "Off"
    /\ last' = [op |-> "Validate", result |-> Validate(config)]
    /\ UNCHANGED <<batchVars, liveVars, chain, reorgs, crashes, logs, blockmap,
                   checkpoint, pc, cursor, windows, nextFetch, fetching, buffer,
                   nextCommit, pendLogs, pendAnchors, pendCkpt, pendPre,
                   committed, firstRun>>

StartupSpec == StartupInit /\ [][Startup]_vars

(* ------------------------ batch program (data.go) ---------------------- *)

\* The arguments main() or another caller gives generateBatches.
DataConfigs ==
    {[StartBlock |-> sb, EndBlock |-> sb + n - 1, NumBatches |-> nb] :
        sb \in {0, 1}, n \in 1..MaxDataBlocks, nb \in 1..MaxDataBatches}

\* generateBatches: the first i batches, counts[j] logs answered by the
\* FilterLogs call of batch j - 1. Block arithmetic is uint64.
RECURSIVE generateBatches(_, _, _, _, _)
generateBatches(startBlock, endBlock, numBatches, counts, i) ==
    IF i = 0 THEN <<>>
    ELSE LET done == generateBatches(startBlock, endBlock, numBatches, counts, i - 1)
             totalBlocks == Uint64(endBlock - startBlock + 1)
             blocksPerBatch == totalBlocks \div numBatches
             batchStart == Uint64(startBlock + (i - 1) * blocksPerBatch)
             batchEnd == IF i = numBatches THEN endBlock
                         ELSE Uint64(batchStart + blocksPerBatch - 1)
             currentIndex == IF i = 1 THEN 0
                             ELSE done[i - 1].StartIndex + done[i - 1].LogCount
         IN  Append(done, [WorkerID |-> i - 1, StartBlock |-> batchStart,
                           EndBlock |-> batchEnd, StartIndex |-> currentIndex,
                           LogCount |-> counts[i]])

DataInit ==
    /\ EngineOff
    /\ LiveOff
    /\ config \in DataConfigs
    /\ mpc = "generate"
    /\ gen = [startBlock |-> 0, currentIndex |-> 0]
    /\ batches = <<>>
    /\ batchChan = <<>>
    /\ workers = [w \in {} |-> 0]
    /\ workerDbs = EmptyMap
    /\ errors = <<>>
    /\ errorCount = 0
    /\ finalDb = EmptyMap
    /\ merged = 0
    /\ fetched = {}
    /\ failed = {}
    /\ queries = {}

\* main() calls generateBatches: every FilterLogs call answers some logs, or
\* one fails and main() gives up.
DataGenerateBatches ==
    /\ mpc = "generate"
    /\ \E fails \in BOOLEAN :
          IF fails
          THEN mpc' = "fatal" /\ UNCHANGED batches
          ELSE \E counts \in [1..config.NumBatches -> 0..MaxBatchLogs] :
                  /\ batches' = generateBatches(config.StartBlock, config.EndBlock,
                                    config.NumBatches, counts, config.NumBatches)
                  /\ mpc' = "workers"
    /\ UNCHANGED <<engineVars, liveVars, config, gen, batchChan, workers,
                   workerDbs, errors, errorCount, finalDb, merged, fetched,
                   failed, queries>>

DataSpec == DataInit /\ [][DataGenerateBatches]_vars

(* ------------------------------- claims -------------------------------- *)

\* A state right after a completed window commit or a rollback.
AfterTransaction == last.op \in {"SaveCheckpoint", "Rollback"}

\* (blockNumber, logIndex) of r1 is at most that of r2, lexicographically.
LexLeq(r1, r2) ==
    \/ r1.blockNumber < r2.blockNumber
    \/ r1.blockNumber = r2.blockNumber /\ r1.logIndex <= r2.logIndex

\* C1: after every window commit and every rollback the stored indices are
\* exactly 0..GetLastIndex-1 and GetLastIndex equals GetTotalCount.
C1_DenseIndices ==
    AfterTransaction =>
        /\ DOMAIN logs = 0..(GetLastIndex(logs) - 1)
        /\ GetLastIndex(logs) = GetTotalCount(logs)

\* What a one-worker run stores for the windows ws: each window's logs in
\* turn, indexed from 0.
RECURSIVE SequentialFetch(_, _)
SequentialFetch(ch, ws) ==
    IF ws = <<>> THEN <<>>
    ELSE FilterLogs(ch, Head(ws).from, Head(ws).to) \o SequentialFetch(ch, Tail(ws))

SequentialRun(ch, upTo) ==
    LET recs == BuildRecords(
                   SequentialFetch(ch, PlanWindows(StartBlock, upTo, MaxBlockRange)), 0)
    IN  [i \in 0..(Len(recs) - 1) |-> recs[i + 1]]

\* C2: the committer only ever commits the window that follows the last
\* committed block, whatever order the fetchers finish in, and on a chain
\* that does not change the stored records are those of a one-worker run.
C2_CommitInWindowOrder ==
    /\ Committing =>
          /\ windows[nextCommit].from = cursor.lastProcessedBlock + 1
          /\ pendCkpt.lastProcessedBlock = windows[nextCommit].to
    /\ (reorgs = 0 /\ crashes = 0 /\ ~Committing) =>
          logs = SequentialRun(chain, cursor.lastProcessedBlock)

\* Window 1 finishes fetching after window 2, which waits in the buffer.
C2_Witness ==
    /\ reorgs = 0 /\ crashes = 0
    /\ last.op = "FetchDeliver" /\ last.window = 1
    /\ nextCommit = 1
    /\ 2 \in DOMAIN buffer
    /\ buffer[2] # <<>>

\* C3: every visible storage state is the result of whole window commits and
\* rollbacks: never some but not all of a window's records, anchors and
\* checkpoint.
C3_CommitAllOrNothing == Storage = committed

\* C4: after every window commit and every rollback each stored record has
\* the anchor of its block, with its hash, and lies at or below the
\* checkpoint's lastProcessedBlock.
C4_RecordsAnchored ==
    AfterTransaction =>
        \A i \in DOMAIN logs :
            /\ GetBlockHash(blockmap, logs[i].blockNumber) = logs[i].blockHash
            /\ checkpoint.present
            /\ logs[i].blockNumber <= checkpoint.lastProcessedBlock

\* C5: after every window commit and every rollback the checkpoint's
\* nextIndex is the number of stored records and its lastBlockHash is the
\* stored anchor of its lastProcessedBlock.
C5_CheckpointMatchesStore ==
    AfterTransaction =>
        /\ checkpoint.present
        /\ checkpoint.nextIndex = GetTotalCount(logs)
        /\ checkpoint.lastProcessedBlock \in DOMAIN blockmap
        /\ checkpoint.lastBlockHash = blockmap[checkpoint.lastProcessedBlock]

\* C6: after every window commit and every rollback the records are in
\* (blockNumber, logIndex) order by index.
C6_IndexOrderIsBlockOrder ==
    AfterTransaction =>
        \A i, j \in DOMAIN logs : i < j => LexLeq(logs[i], logs[j])

C8_NoAnchorAboveAncestor ==
    last.op = "Rollback" => \A b \in DOMAIN blockmap : b <= last.toBlock

\* C9: after the rollback to A the persisted checkpoint reads
\* lastProcessedBlock = A, lastBlockHash = anchor(A), nextIndex = count.
C9_CheckpointRewound ==
    last.op = "Rollback" =>
        /\ checkpoint.present
        /\ checkpoint.lastProcessedBlock = last.toBlock
        /\ checkpoint.lastBlockHash = GetBlockHash(blockmap, last.toBlock)
        /\ checkpoint.nextIndex = GetTotalCount(logs)

\* The blocks below L, inside the rollback window, whose stored anchor equals
\* the live header hash, read from the buckets as they were at the check.
LiveMatches ==
    {A \in Blocks : /\ A < last.from
                    /\ last.from - A < RollbackWindow
                    /\ A \in DOMAIN last.pre.blockmap
                    /\ last.pre.blockmap[A] = HeaderHash(last.live, A)}

\* C10: on a hash mismatch at L the handler rolls back to the largest block
\* below L, inside the rollback window, whose stored anchor matches the live
\* chain, and gives up only when there is none.
C10_LargestMatchingAncestor ==
    /\ last.op = "Rollback" =>
          /\ HeaderHash(last.live, last.from) # last.expected
          /\ last.toBlock \in LiveMatches
          /\ \A A \in LiveMatches : A <= last.toBlock
    /\ last.op = "Unrecoverable" => LiveMatches = {}

\* A rollback with two matching anchors to choose from.
C10_Witness ==
    /\ last.op = "Rollback"
    /\ Cardinality(LiveMatches) >= 2
    /\ last.toBlock = last.from - 1

\* C11: when the reorg is declared unrecoverable ingest stops for good and
\* the buckets are exactly those of the last completed window commit (or
\* rollback): nothing was rolled back in part.
C11_UnrecoverableLeavesStorage ==
    last.op = "Unrecoverable" =>
        /\ pc = "fatal"
        /\ Storage = last.pre
        /\ Storage = committed

\* Window ids fetched and not yet committed: in a fetcher's hands or in the
\* reorder buffer.
InFlight == ({fetching[w] : w \in 1..Workers} \ {0}) \cup DOMAIN buffer

\* C12: a start with a persisted checkpoint resumes from its
\* lastProcessedBlock and runs the reorg check first, a start without one
\* begins at the configured start block, and no FilterLogs call covers a
\* block at or below lastProcessedBlock.
C12_ResumeAfterCheckpoint ==
    /\ last.op = "Boot" =>
          IF checkpoint.present
          THEN /\ pc = "reorgcheck"
               /\ cursor.lastProcessedBlock = checkpoint.lastProcessedBlock
               /\ cursor.lastBlockHash = checkpoint.lastBlockHash
          ELSE /\ pc = "plan"
               /\ cursor.lastProcessedBlock = StartBlock - 1
    /\ (last.op = "Plan" /\ pc = "run") =>
          windows[1].from = cursor.lastProcessedBlock + 1
    /\ \A id \in InFlight : windows[id].from > cursor.lastProcessedBlock

\* After a restart that found a checkpoint, the first FilterLogs call in
\* flight starts right above the checkpoint's lastProcessedBlock.
C12_Witness ==
    /\ crashes = 1
    /\ checkpoint.present
    /\ checkpoint.lastProcessedBlock >= StartBlock
    /\ nextCommit = 1
    /\ \E w \in 1..Workers :
          /\ fetching[w] = 1
          /\ windows[1].from = checkpoint.lastProcessedBlock + 1

\* The anchors an uninterrupted run stores for the windows ws.
RECURSIVE SequentialAnchors(_, _)
SequentialAnchors(ch, ws) ==
    IF ws = <<>> THEN <<>>
    ELSE BuildAnchors(FilterLogs(ch, Head(ws).from, Head(ws).to),
                      Head(ws).from, Head(ws).to, ch)
         \o SequentialAnchors(ch, Tail(ws))

\* The buckets of a run that was never stopped, once block upTo is committed.
UninterruptedRun(ch, upTo) ==
    LET ws == PlanWindows(StartBlock, upTo, MaxBlockRange)
        as == SequentialAnchors(ch, ws)
        recs == SequentialRun(ch, upTo)
    IN  [logs |-> recs,
         blockmap |-> [b \in {as[i].blockNumber : i \in 1..Len(as)} |->
                          HeaderHash(ch, b)],
         checkpoint |-> [present |-> TRUE, lastProcessedBlock |-> upTo,
                         nextIndex |-> Cardinality(DOMAIN recs),
                         lastBlockHash |-> HeaderHash(ch, upTo)]]

C14_KillLeavesWholeCommit ==
    last.op = "Crash" =>
        /\ Storage = committed
        /\ IF checkpoint.present
           THEN /\ checkpoint.nextIndex = GetTotalCount(logs)
                /\ \A i \in DOMAIN logs :
                      logs[i].blockNumber <= checkpoint.lastProcessedBlock
           ELSE logs = EmptyMap /\ blockmap = EmptyMap

\* What a record says about the chain: everything but its index.
Content(r) == <<r.blockNumber, r.blockHash, r.logIndex>>

\* The rolled-back blocks that have been committed again.
RerunBlocks ==
    {b \in Blocks : /\ b > firstRun.toBlock
                    /\ b <= firstRun.from
                    /\ b <= cursor.lastProcessedBlock}

FirstRunRecords ==
    {i \in DOMAIN firstRun.logs : firstRun.logs[i].blockNumber \in RerunBlocks}

RerunRecords == {i \in DOMAIN logs : logs[i].blockNumber \in RerunBlocks}

SameChainContents ==
    {Content(firstRun.logs[i]) : i \in FirstRunRecords}
        = {Content(logs[i]) : i \in RerunRecords}

\* C15: when the blocks a rollback removed are committed again and the chain
\* gives them the contents it gave the first time, the records are the same
\* under the same indices as before the rollback.
C15_RerunAfterRollbackIdempotent ==
    (firstRun.present /\ last.op = "SaveCheckpoint" /\ SameChainContents) =>
        /\ RerunRecords = FirstRunRecords
        /\ \A i \in RerunRecords : logs[i] = firstRun.logs[i]

\* C16: the planner's windows are in order, each with start <= end and at
\* most MAX_BLOCK_RANGE blocks, each starting right after the one before,
\* the first at the range's first block and the last ending at its last; a
\* range of exactly MAX_BLOCK_RANGE blocks is one window.
C16_PlannerCoversRange ==
    mpc \in {"workers", "consolidate", "done"} =>
        /\ Len(batches) >= 1
        /\ batches[1].StartBlock = config.StartBlock
        /\ batches[Len(batches)].EndBlock = config.EndBlock
        /\ \A i \in 1..Len(batches) :
              /\ batches[i].StartBlock <= batches[i].EndBlock
              /\ batches[i].EndBlock - batches[i].StartBlock + 1 <= MAX_BLOCK_RANGE
              /\ i > 1 => batches[i].StartBlock = batches[i - 1].EndBlock + 1
        /\ config.EndBlock - config.StartBlock + 1 = MAX_BLOCK_RANGE =>
              Len(batches) = 1

\* A range of one block more than a full window is planned as two windows,
\* the second of one block.
C16_Witness ==
    /\ mpc = "workers"
    /\ config.EndBlock - config.StartBlock + 1 = MAX_BLOCK_RANGE + 1
    /\ Len(batches) = 2
    /\ batches[1].EndBlock - batches[1].StartBlock + 1 = MAX_BLOCK_RANGE
    /\ batches[2].StartBlock = batches[2].EndBlock

\* C17: once the batch program has consolidated, the final database holds
\* one record per log fetched by a batch that did not fail, and the indices
\* are exactly 0..total-1.
C17_FinalIndicesContiguous ==
    mpc = "done" =>
        /\ DOMAIN finalDb = 0..(Cardinality(fetched) - 1)
        /\ \A l \in fetched :
              Cardinality({i \in DOMAIN finalDb :
                              /\ finalDb[i].BlockNumber = l.BlockNumber
                              /\ finalDb[i].LogIndex = l.LogIndex}) = 1

\* C18: the reorder buffer never holds more than 2W fetched windows.
C18_ReorderBufferBounded == Cardinality(DOMAIN buffer) <= 2 * Workers

\* The buffer is full and a fetcher holds one more fetched window.
C18_Witness ==
    /\ pc = "run"
    /\ Cardinality(DOMAIN buffer) = 2 * Workers
    /\ \E w \in 1..Workers : fetching[w] # 0 /\ fetching[w] \notin DOMAIN buffer

\* C19: while backfill has windows left to commit, a fetcher or the committer
\* can take a step: the pipeline is never stuck.
C19_BackfillNeverStuck == pc = "run" => ENABLED PipelineStep

C21_ReorgCheckBeforeSpan ==
    (pc = "run" /\ target # 0) =>
        /\ spanCheck.checked
        /\ windows[1].from = spanCheck.resume + 1

\* Push mode: the tailer starts its second span, detection having run again.
C21_Witness ==
    /\ mode = "push"
    /\ pc = "run"
    /\ target # 0
    /\ last.op = "Plan"
    /\ spanCheck.spans = 1
    /\ spanCheck.checked

ContiguousView(rd) ==
    /\ Len(rd.view) = rd.n
    /\ \A i \in 1..Len(rd.view) : rd.view[i] = i - 1

C24_RollbackExclusive ==
    /\ rb.pc = "locked" => Storage = rb.pre
    /\ last.op = "Rollback" => ~last.mid

\* C25: whatever the WebSocket clients do, a window commit on the live path
\* can always take its next step; each stored record is either put on the
\* broadcast channel or, the channel being full, dropped and counted.
C25_BroadcastNeverBlocks ==
    /\ (Committing /\ target # 0) => ENABLED LiveCommitStep
    /\ (last.op = "StoreLog" /\ target # 0) =>
          /\ bcast.index \in DOMAIN logs
          /\ IF Len(bcast.before) < LiveChCap
             THEN /\ bcast.outcome = "sent"
                  /\ liveCh = Append(bcast.before, bcast.index)
                  /\ dropped = bcast.dropped
             ELSE /\ bcast.outcome = "dropped"
                  /\ liveCh = bcast.before
                  /\ dropped = bcast.dropped + 1

\* A client is connected and reads nothing: the channel is full, the record
\* is stored, dropped and counted.
C25_Witness ==
    /\ last.op = "StoreLog"
    /\ target # 0
    /\ bcast.outcome = "dropped"
    /\ dropped = 1
    /\ \E c \in DOMAIN subs : subs[c].open /\ subs[c].frames = <<>>

\* The records of the frames a WebSocket handler has written.
Frames(c) == {subs[c].frames[i] : i \in 1..Len(subs[c].frames)}

\* C26: once the broadcast channel is empty, every connected WebSocket client
\* has been sent a frame for every record that was put on the channel.
C26_EverySubscriberGetsEveryRecord ==
    liveCh = <<>> =>
        \A c \in DOMAIN subs :
            subs[c].open => Frames(c) = UNION {Frames(d) : d \in DOMAIN subs}

\* What the committer leaves behind: no window half-written, and a checkpoint
\* that describes exactly the stored records.
CleanStore ==
    /\ ~Committing
    /\ Storage = committed
    /\ IF checkpoint.present
       THEN /\ DOMAIN logs = 0..(checkpoint.nextIndex - 1)
            /\ \A i \in DOMAIN logs :
                  logs[i].blockNumber <= checkpoint.lastProcessedBlock
            /\ checkpoint.lastProcessedBlock >= StartBlock =>
                  GetBlockHash(blockmap, checkpoint.lastProcessedBlock)
                      = checkpoint.lastBlockHash
       ELSE logs = EmptyMap

\* C27: after the root scope is cancelled every fetcher, the tailer and the
\* committer exit in the end; when the committer has exited, no window commit
\* is left half-written and the checkpoint describes the stored records.
C27_CancelledExitsClean ==
    /\ [](exited.committer => CleanStore)
    /\ (cancelled ~> AllExited)

\* The cancellation came in the middle of a window's commit; the committer
\* finished it, wrote its final checkpoint, and every task has exited.
C27_Witness ==
    /\ AllExited
    /\ exited.mid
    /\ last.op = "CommitterExit"
    /\ logs # EmptyMap
\* C28: once a batch has failed for good, no record of a block after the
\* failed batch's range is merged into the final store.
C28_FailedWindowStopsIngest ==
    \A f \in failed :
        \A k \in DOMAIN finalDb :
            finalDb[k].BlockNumber <= batches[f + 1].EndBlock

\* C29: a stored record is never mutated: whatever a step does, a record
\* that is still stored afterwards under the same index is the same record.
C29_StoredRecordNeverMutated ==
    [][\A i \in DOMAIN logs : i \in DOMAIN logs' => logs'[i] = logs[i]]_vars

\* C30: FilterLogs is never called with a span wider than MAX_BLOCK_RANGE;
\* a batch with a wider span is refused with an error, no FilterLogs call is
\* made for it and no record of its blocks is written.
C30_NoOversizeFilter ==
    /\ \A q \in queries : q.ToBlock - q.FromBlock + 1 <= MAX_BLOCK_RANGE
    /\ \A i \in 1..Len(batches) :
          LET batch == batches[i]
          IN  batch.EndBlock - batch.StartBlock + 1 > MAX_BLOCK_RANGE =>
                /\ [FromBlock |-> batch.StartBlock,
                    ToBlock |-> batch.EndBlock] \notin queries
                /\ batch.BatchID \in DOMAIN workerDbs =>
                      /\ batch.BatchID \in failed
                      /\ workerDbs[batch.BatchID] = EmptyMap
                /\ \A k \in DOMAIN finalDb :
                      finalDb[k].BlockNumber \notin
                          batch.StartBlock..batch.EndBlock

\* A batch one block wider than the limit was refused: it failed, its
\* database is there and no FilterLogs call was made; main() has counted
\* the error.
C30_Witness ==
    /\ mpc = "consolidate"
    /\ batches # <<>>
    /\ batches[1].EndBlock - batches[1].StartBlock = MAX_BLOCK_RANGE
    /\ 0 \in failed
    /\ 0 \in DOMAIN workerDbs
    /\ queries = {}
    /\ errorCount = 1

\* C31: GET /v1/logs answers the logs of the block when blockNumber is set,
\* else the logs of the transaction when txHash is set, else an index range
\* scan; the body is an array, never null.
C31_RoutesByParameterPriority ==
    reads.op = "GetLogs" =>
        LET q == reads.q
            items == reads.resp.body.items
        IN  /\ reads.resp.body.json = "array"
            /\ IF q.blockNumber.kind = "num" /\ q.blockNumber.val >= 0
               THEN items = GetLogsByBlockNumber(logs, q.blockNumber.val)
               ELSE IF q.blockNumber.kind = "unset" /\ q.txHash # ""
               THEN items = GetLogsByTxHash(logs, q.txHash)
               ELSE q.blockNumber.kind = "unset" =>
                       \A i \in 1..Len(items) :
                           /\ items[i] = logs[items[i].index]
                           /\ i > 1 => items[i].index = items[i - 1].index + 1

\* C32: GET /v1/logs with no index, block or transaction and limit L > 0
\* (100 when not given) answers the latest min(L, total) records: those with
\* indices max(0, total - L) .. total - 1.
C32_LatestRecords ==
    (/\ reads.op = "GetLogs"
     /\ reads.q.startIndex.kind = "unset"
     /\ reads.q.endIndex.kind = "unset"
     /\ reads.q.blockNumber.kind = "unset"
     /\ reads.q.txHash = ""
     /\ parseInt(reads.q.limit, DefaultLimit) > 0) =>
        LET L == parseInt(reads.q.limit, DefaultLimit)
            total == GetTotalCount(logs)
            first == IF total > L THEN total - L ELSE 0
        IN  reads.resp.body.items = [i \in 1..(total - first) |-> logs[first + i - 1]]

\* C33: GET /v1/logs/{index} answers the stored record whose index is
\* {index} when there is one, and 404 when there is none.
C33_LogByIndexOr404 ==
    (/\ reads.op = "LogQuery"
     /\ reads.indexStr.kind = "num"
     /\ reads.indexStr.val >= 0) =>
        IF \E k \in DOMAIN logs : logs[k].index = reads.indexStr.val
        THEN /\ reads.resp.status = 200
             /\ reads.resp.body.index = reads.indexStr.val
             /\ reads.resp.body \in {logs[k] : k \in DOMAIN logs}
        ELSE reads.resp.status = 404

\* Index 0 was removed by a rollback and is then asked for: 404.
C33_Witness ==
    /\ reads.op = "LogQuery"
    /\ reads.indexStr = [kind |-> "num", val |-> 0]
    /\ 0 \in rb.removed
    /\ reads.resp.status = 404

C38_RangeWithinBounds ==
    reads.op = "RangeLogs" =>
        LET InRange(le) ==
                reads.startIndex <= le.index /\ le.index <= reads.endIndex
            matching == SelectSeq(AllEntries(logs), InRange)
            n == IF reads.limit > 0 /\ reads.limit < Len(matching)
                 THEN reads.limit ELSE Len(matching)
        IN  reads.result = SubSeq(matching, 1, n)

\* The logs of the batch in the entries of a database.
LogsOf(db) ==
    {[BlockNumber |-> db[k].BlockNumber, LogIndex |-> db[k].LogIndex] :
        k \in DOMAIN db}

C36_ErrorsNeverBlock ==
    <>(mpc = "consolidate" /\ errorCount = Cardinality(failed))

\* C37: startup validation accepts a configuration exactly when rpc,
\* contract and topic are non-empty and workers is in 1..64; a rejection is
\* an error that names an offending field.
C37_ValidationExact ==
    last.op = "Validate" =>
        LET bad == {f \in {"rpc", "contract", "topic", "workers"} :
                       \/ f = "rpc" /\ config.RPC = ""
                       \/ f = "contract" /\ config.ContractAddr = ""
                       \/ f = "topic" /\ config.EventTopic = ""
                       \/ f = "workers" /\ config.Workers \notin 1..64}
        IN  IF bad = {}
            THEN ~last.result.err
            ELSE last.result.err /\ last.result.Field \in bad

\* C39: generateBatches cuts [start, end] into numBatches windows with
\* batchStart <= batchEnd, contiguous and non-overlapping, the first starting
\* at start and the last ending at end.
C39_BatchesPartitionRange ==
    (mpc = "workers" /\ "NumBatches" \in DOMAIN config) =>
        /\ Len(batches) = config.NumBatches
        /\ batches[1].StartBlock = config.StartBlock
        /\ batches[Len(batches)].EndBlock = config.EndBlock
        /\ \A i \in 1..Len(batches) :
              /\ batches[i].StartBlock <= batches[i].EndBlock
              /\ i > 1 => batches[i].StartBlock = batches[i - 1].EndBlock + 1

\* Ids of the planned batches, of those waiting on batchChan, of those a
\* worker is processing and of those processed.
PlannedIds == {batches[i].BatchID : i \in 1..Len(batches)}
WaitingIds == {batchChan[i] : i \in 1..Len(batchChan)}
BusyWorkers == {w \in DOMAIN workers : workers[w].pc = "busy"}
BusyIds == {workers[w].batch : w \in BusyWorkers}
ProcessedIds == DOMAIN workerDbs

\* C40: in the worker pool every planned batch is at any time in exactly one
\* place: on the channel once, with one worker, or processed; and when
\* consolidation starts every batch has been processed.
C40_EachBatchOnce ==
    /\ mpc = "workers" =>
          /\ WaitingIds \cup BusyIds \cup ProcessedIds = PlannedIds
          /\ WaitingIds \cap BusyIds = {}
          /\ WaitingIds \cap ProcessedIds = {}
          /\ BusyIds \cap ProcessedIds = {}
          /\ Cardinality(WaitingIds) = Len(batchChan)
          /\ Cardinality(BusyIds) = Cardinality(BusyWorkers)
    /\ mpc = "consolidate" =>
          /\ batchChan = <<>>
          /\ BusyWorkers = {}
          /\ ProcessedIds = {batches[i].BatchID : i \in (merged + 1)..Len(batches)}

\* Two workers have processed one batch each and consolidation starts.
C40_Witness ==
    /\ mpc = "consolidate"
    /\ merged = 0
    /\ Len(batches) = 2
    /\ DOMAIN workers = {1, 2}
    /\ workers[1].batch # workers[2].batch
    /\ ProcessedIds = {0, 1}

====
